---------------------------- MODULE Spec2Model ----------------------------
(***************************************************************************)
(* DSP mailbox protocol of the Nuvoton NAU83G60 / NAU83G10 amplifier       *)
(* drivers: idle polling, message framing, reply decoding, the command     *)
(* dispatcher and the chunked KCS uploader.                                *)
(*                                                                         *)
(* A 32-bit mailbox word is the tuple <<b0, b1, b2, b3>> of the bytes of   *)
(* the driver's u8 data[4] / buf[4] view of the word (little-endian host). *)
(* One action is one mailbox access together with the code that runs up   *)
(* to the next access; pc is the position of the single driver thread.     *)
(***************************************************************************)
EXTENDS Integers, Sequences, FiniteSets, TLC

(***************************************************************************)
(* Program constants                                                       *)
(***************************************************************************)
NAU8360_DSP_IDLE_RETRY == 10
NAU8360_DSP_DATA_BYTE == 4
NAU8360_DSP_KCS_TX_MAX == 96
NAU8360_DSP_RETRY_MAX == 3
NAU8360_DSP_KCS_OFFSET_MAX == 3072

NAU8360_DSP_CMD_GET_COUNTER == 1
NAU8360_DSP_CMD_GET_KCS_RSLTS == 4
NAU8360_DSP_CMD_GET_KCS_SETUP == 6
NAU8360_DSP_CMD_SET_KCS_SETUP == 7
NAU8360_DSP_CMD_GET_FRAME_STATUS == 9
NAU8360_DSP_CMD_GET_REVISION == 10
NAU8360_DSP_CMD_CLK_STOP == 11
NAU8360_DSP_CMD_CLK_RESTART == 12

NAU8360_DSP_REPLY_OK == 0

NAU8360_RF000_DSP_COMM == 61440
NAU8360_RF002_DSP_COMM == 61442

\* errno values
EIO == 5
EFAULT == 14
EINVAL == 22
ERANGE == 34
EPROTO == 71
EREMOTEIO == 121

\* the two drivers
Chips == {"G60", "G10"}

\* variant: both drivers take the largest value of a 10-bit field
KCS_DAT_LEN_MAX_Bits(c) == 1023

\* NAU8360_DSP_KCS_DAT_LEN_MAX is 1024; NAU8310_DSP_KCS_DAT_LEN_MAX is (1 << 10) - 1
KCS_DAT_LEN_MAX(c) == IF c = "G60" THEN 1024 ELSE 1023

\* 0xf4f3f2f1 and 0xb2a1 as bytes in memory order
NAU8360_DSP_COMM_IDLE_WORD == <<241, 242, 243, 244>>
PREAMBLE_LO == 161
PREAMBLE_HI == 178

(***************************************************************************)
(* Bounds of the exploration                                               *)
(***************************************************************************)
\* longest buffer handed to the uploader
MaxUploadLen == 200
\* longest payload handed to a direct send of SetKcsSetup
MaxSendLen == 400
\* largest fragment count a reply preamble of the device declares
MaxReplyFrag == 3

(***************************************************************************)
(* Helpers                                                                 *)
(***************************************************************************)
Min(a, b) == IF a < b THEN a ELSE b
Max(a, b) == IF a < b THEN b ELSE a
CeilDiv(a, b) == (a + b - 1) \div b

\* conversion of an int to u8 on assignment
U8(x) == x % 256

\* the NULL pointer; any other value of a pointer variable is a buffer
NULL == 0

\* byte p of the caller's data buffer d (d /= NULL)
DataByte(d, p) == (d * 29 + p * 13 + (p \div 256)) % 256

\* variant: the bytes are taken most significant first
LeU32_BE(b) == [lo |-> b[4] + b[3] * 256, hi |-> b[2] + b[1] * 256]

\* An unsigned int is held as its two 16-bit halves, [lo, hi], standing for
\* lo + hi * 65536: the model checker's integers are 32-bit signed.
\* b[0] | b[1] << 8 | b[2] << 16 | b[3] << 24
LeU32(b) == [lo |-> b[1] + b[2] * 256, hi |-> b[3] + b[4] * 256]

\* the bytes in memory of the unsigned int v (little-endian host)
U32Bytes(v) == << v.lo % 256, v.lo \div 256, v.hi % 256, v.hi \div 256 >>

\* memory m (a sequence of bytes, first byte at offset 0) after bytes bs
\* are stored at offset pos; the bytes stored so far are contiguous
Store(m, pos, bs) ==
    [k \in 1..Max(Len(m), pos + Len(bs)) |->
        IF k > pos /\ k <= pos + Len(bs) THEN bs[k - pos] ELSE m[k]]

(***************************************************************************)
(* nau8360_dsp_cmd_table and nau8360_dsp_commands                          *)
(***************************************************************************)
DspCommands ==
    { NAU8360_DSP_CMD_GET_COUNTER, NAU8360_DSP_CMD_GET_FRAME_STATUS,
      NAU8360_DSP_CMD_GET_REVISION, NAU8360_DSP_CMD_GET_KCS_RSLTS,
      NAU8360_DSP_CMD_GET_KCS_SETUP, NAU8360_DSP_CMD_SET_KCS_SETUP,
      NAU8360_DSP_CMD_CLK_STOP, NAU8360_DSP_CMD_CLK_RESTART }

\* variant: the opcode is tested against the bounds of the table
nau8360_dsp_commands_Range(cmd_id) ==
    cmd_id >= 0 /\ cmd_id <= NAU8360_DSP_CMD_CLK_RESTART

nau8360_dsp_commands(cmd_id) == cmd_id \in DspCommands

msg_param(cmd_id) ==
    cmd_id \in { NAU8360_DSP_CMD_GET_KCS_RSLTS, NAU8360_DSP_CMD_GET_KCS_SETUP,
                 NAU8360_DSP_CMD_SET_KCS_SETUP }

setup_data(cmd_id) == cmd_id = NAU8360_DSP_CMD_SET_KCS_SETUP

\* the NAU83G10 table gives SET_KCS_SETUP no reply_data
reply_data(c, cmd_id) ==
    \/ cmd_id \in { NAU8360_DSP_CMD_GET_COUNTER, NAU8360_DSP_CMD_GET_FRAME_STATUS,
                    NAU8360_DSP_CMD_GET_REVISION, NAU8360_DSP_CMD_GET_KCS_RSLTS,
                    NAU8360_DSP_CMD_GET_KCS_SETUP }
    \/ (c = "G60" /\ cmd_id = NAU8360_DSP_CMD_SET_KCS_SETUP)


(***************************************************************************)
(* Words written by nau8360_massage_to_dsp                                 *)
(***************************************************************************)
\* data[0] = preamble; data[1] = preamble >> 8;
\* data[2] = (cmd_id << 2) | (frag_len & 0x3); data[3] = frag_len >> 2
PreambleWord(cmd_id, frag_len) ==
    << PREAMBLE_LO, PREAMBLE_HI, U8(cmd_id * 4 + (frag_len % 4)), U8(frag_len \div 4) >>

\* variant: the high byte of each field goes first
DescriptorWord_BE(param_offset, param_size) ==
    << U8(param_offset \div 256), U8(param_offset),
       U8(param_size \div 256), U8(param_size) >>

\* data[0] = param_offset; data[1] = param_offset >> 8;
\* data[2] = param_size; data[3] = param_size >> 8
DescriptorWord(param_offset, param_size) ==
    << U8(param_offset), U8(param_offset \div 256),
       U8(param_size), U8(param_size \div 256) >>

\* variant: the word is not cleared, and the bytes after the payload's end
\* are what the buffer holds there
PayloadWord_Stale(p, i, param_size) ==
    [j \in 1..NAU8360_DSP_DATA_BYTE |-> DataByte(p.buf, p.pos + i + j - 1)]

\* the word the payload loop has built when it writes: bytes i .. i+3 of
\* param_data, the bytes at and after param_size left at the 0 of *value = 0
PayloadWord(p, i, param_size) ==
    [j \in 1..NAU8360_DSP_DATA_BYTE |->
        IF i + j - 1 < param_size THEN DataByte(p.buf, p.pos + i + j - 1) ELSE 0]

\* data[0] = frag_cnt; data[1] = ((frag_cnt >> 8) << 6) | (padding << 4)
TrailerWord(frag_cnt, padding) ==
    << U8(frag_cnt), U8((frag_cnt \div 256) * 64 + padding * 16), 0, 0 >>

(***************************************************************************)
(* Fields read by nau8360_dsp_replied and nau8360_reply_from_dsp           *)
(***************************************************************************)
IsPreamble(b) == b[1] = PREAMBLE_LO /\ b[2] = PREAMBLE_HI
\* *length = b[2] & 0x3; *length |= b[3] << 2
ReplyLength(b) == (b[3] % 4) + b[4] * 4
\* reply_id = b[2] >> 2
ReplyId(b) == b[3] \div 4
\* variant: the two high bits of the count are left out
LenPos_LowByte(b) == b[1]

\* len_pos = b[0]; len_pos |= (b[1] & 0xc0) << 2
LenPos(b) == b[1] + (b[2] \div 64) * 256
\* pad_len = (b[1] & 0x30) >> 4
PadLen(b) == (b[2] \div 16) % 4

(***************************************************************************)
(* State                                                                   *)
(***************************************************************************)
VARIABLES
    chip,       \* which driver runs: "G60" (NAU83G60) or "G10" (NAU83G10)
    pc,         \* position of the driver thread
    op,         \* the entry point running: "none", "send", "upload"
    kcs_setup,  \* struct nau8360_kcs_setup of the caller
    snd,        \* nau8360_send_dsp_command: cmd_id, dsp_addr, frag_len, ret
    msg,        \* nau8360_massage_to_dsp and nau8360_dsp_idle: retries, i, padding, frag_cnt
    rep,        \* nau8360_reply_from_dsp and nau8360_dsp_replied: locals
    up,         \* nau8360_dsp_kcs_setup: arguments and locals
    mem,        \* bytes the current exchange stored through get_data
    bc,         \* nau8360_send_dsp_broadcast: i, ret
    io,         \* history: the mailbox accesses of the current exchange
    xlog,       \* history: the exchanges of the current upload or broadcast
    ld,         \* nau8360_dsp_set_kcs_setup: phase, i, ret, status, log
    cur,        \* the thread that runs: 1 or 2
    other       \* the thread that does not run: its pc, locals and histories

vars == << chip, pc, op, kcs_setup, snd, msg, rep, up, bc, mem, io, xlog, ld, cur, other >>

NullPtr == [buf |-> NULL, pos |-> 0]

Msg0 == [retries |-> 0, i |-> 0, padding |-> 0, frag_cnt |-> 0]
Rep0 == [retries |-> 0, frag_len |-> 0, frag_payload_len |-> 0, data_count |-> 0,
         i |-> 0, data_buf |-> 0]
Snd0 == [cmd_id |-> 0, dsp_addr |-> 0, frag_len |-> 0, ret |-> 0]
Up0 == [offset |-> 0, size |-> 0, data |-> NULL, dsp_addr |-> 0, data_buf |-> 0,
        addr_offset |-> 0, data_rem |-> 0, retries |-> 0, data_len |-> 0,
        cmd_id |-> 0, ret |-> 0, entered |-> FALSE]
Bc0 == [i |-> 0, ret |-> 0]
Ld0 == [phase |-> "none", i |-> 0, ret |-> 0, status |-> 0, log |-> << >>]
Kcs0 == [set_len |-> 0, set_kcs_offset |-> 0, set_kcs_data |-> NullPtr,
         get_len |-> 0, get_data |-> NULL]
\* nidle: regmap_reads of nau8360_dsp_idle (kept when it fails, dropped at
\*   the first write when it returned 0); idle: the idle word was read;
\* w: the words handed to snd_soc_component_write, in order;
\* npoll: regmap_reads of the running nau8360_dsp_replied (kept when it
\*   fails, dropped when it returns 0 to go on);
\* nrd: regmap_reads after the reply preamble (payload words and trailer);
\* r: the reply words the decoder took (preambles that matched, payload
\*   words, the trailer); addrs: the mailbox addresses accessed;
\* wfail: the place in w of the first word whose write returned an error,
\*   0 when none did
Io0 == [nidle |-> 0, idle |-> FALSE, w |-> << >>, npoll |-> 0, nrd |-> 0,
        r |-> << >>, addrs |-> {}, wfail |-> 0]


(***************************************************************************)
(* The register device: what one regmap_read of the mailbox can return.    *)
(* The words are drawn per read site, one for each case the code at that   *)
(* site tells apart: the idle loop compares the word with the idle word,   *)
(* the preamble loop looks at bytes 0 and 1 and takes the two fields, the  *)
(* payload loop stores the word unlooked at, the trailer read takes the    *)
(* two fields.                                                             *)
(***************************************************************************)
\* reply ids the device puts in a reply preamble: enum nau8360_dsp_reply
ReplyIds == 0..5

IdleWords == { NAU8360_DSP_COMM_IDLE_WORD, <<0, 0, 0, 0>> }

\* a preamble with an error id comes with the fragment count 2; the code
\* returns on the id without a look at the count
PreambleWords ==
    { NAU8360_DSP_COMM_IDLE_WORD }
    \cup { PreambleWord(NAU8360_DSP_REPLY_OK, n) : n \in 0..MaxReplyFrag }
    \cup { PreambleWord(id, n) : id \in ReplyIds \ {NAU8360_DSP_REPLY_OK}, n \in {2} }

PayloadWords == { <<120, 86, 52, 18>>, <<1, 2, 3, 244>> }

\* padding fields the device puts in a reply trailer
ReplyPads == {0, 3}

TrailerWords == { TrailerWord(n, p) : n \in 1..MaxReplyFrag, p \in ReplyPads }

\* the return values of a write to the mailbox: 0, or the error of the bus
WriteResults == {0, -EREMOTEIO}
\* the writes of the mailbox go through
WriteOk == {0}

\* ret: the return value of regmap_read; val: the word read when ret = 0
ReadResults(words) ==
    { [ret |-> -EREMOTEIO, val |-> <<0, 0, 0, 0>>] }
    \cup { [ret |-> 0, val |-> w] : w \in words }

(***************************************************************************)
(* nau8360_send_dsp_command, up to its first mailbox access                *)
(***************************************************************************)
\* variant: the reply buffer is not tested
SendValidate_NoReplyTest(c, cmd_id, ks) ==
    IF ~nau8360_dsp_commands(cmd_id) THEN -EINVAL
    ELSE IF \/ (msg_param(cmd_id) /\ ks.set_len = 0)
            \/ (setup_data(cmd_id) /\ ks.set_kcs_data.buf = NULL)
         THEN (IF c = "G60" THEN -EFAULT ELSE -EINVAL)
    ELSE IF /\ cmd_id = NAU8360_DSP_CMD_GET_KCS_SETUP
            /\ \/ ks.set_len > KCS_DAT_LEN_MAX(c)
               \/ ks.set_kcs_offset > NAU8360_DSP_KCS_OFFSET_MAX
         THEN (IF c = "G60" THEN -ERANGE ELSE -EINVAL)
    ELSE 0

\* variant: the offset of GET_KCS_SETUP is not tested
SendValidate_NoOffsetTest(c, cmd_id, ks) ==
    IF ~nau8360_dsp_commands(cmd_id) THEN -EINVAL
    ELSE IF \/ (msg_param(cmd_id) /\ ks.set_len = 0)
            \/ (setup_data(cmd_id) /\ ks.set_kcs_data.buf = NULL)
            \/ (reply_data(c, cmd_id) /\ ks.get_data = NULL)
         THEN (IF c = "G60" THEN -EFAULT ELSE -EINVAL)
    ELSE IF /\ cmd_id = NAU8360_DSP_CMD_GET_KCS_SETUP
            /\ ks.set_len > KCS_DAT_LEN_MAX(c)
         THEN (IF c = "G60" THEN -ERANGE ELSE -EINVAL)
    ELSE 0

\* the checks before any I/O: 0, or the error send returns
SendValidate(c, cmd_id, ks) ==
    IF ~nau8360_dsp_commands(cmd_id) THEN -EINVAL
    ELSE IF \/ (msg_param(cmd_id) /\ ks.set_len = 0)
            \/ (setup_data(cmd_id) /\ ks.set_kcs_data.buf = NULL)
            \/ (reply_data(c, cmd_id) /\ ks.get_data = NULL)
         THEN (IF c = "G60" THEN -EFAULT ELSE -EINVAL)
    ELSE IF /\ cmd_id = NAU8360_DSP_CMD_GET_KCS_SETUP
            /\ \/ ks.set_len > KCS_DAT_LEN_MAX(c)
               \/ ks.set_kcs_offset > NAU8360_DSP_KCS_OFFSET_MAX
         THEN (IF c = "G60" THEN -ERANGE ELSE -EINVAL)
    ELSE 0

\* variant: the payload words are counted rounding down
FragLen_Floor(cmd_id, set_len) ==
    (IF msg_param(cmd_id) THEN 2 ELSE 0)
    + (IF setup_data(cmd_id) THEN set_len \div NAU8360_DSP_DATA_BYTE ELSE 0)

\* variant: the preamble is counted as a fragment
FragLen_WithPreamble(cmd_id, set_len) ==
    1 + (IF msg_param(cmd_id) THEN 2 ELSE 0)
    + (IF setup_data(cmd_id)
       THEN (set_len + NAU8360_DSP_DATA_BYTE - 1) \div NAU8360_DSP_DATA_BYTE
       ELSE 0)

\* frag_len as send computes it for massage_to_dsp
FragLen(cmd_id, set_len) ==
    (IF msg_param(cmd_id) THEN 2 ELSE 0)
    + (IF setup_data(cmd_id)
       THEN (set_len + NAU8360_DSP_DATA_BYTE - 1) \div NAU8360_DSP_DATA_BYTE
       ELSE 0)

\* send is entered with cmd_id and the struct ks on the mailbox dsp_addr
EnterSend(cmd_id, ks, dsp_addr) ==
    LET v == SendValidate(chip, cmd_id, ks) IN
    /\ snd' = [cmd_id |-> cmd_id, dsp_addr |-> dsp_addr,
               frag_len |-> IF v = 0 THEN FragLen(cmd_id, ks.set_len) ELSE 0,
               ret |-> v]
    /\ msg' = [Msg0 EXCEPT !.retries = IF v = 0 THEN NAU8360_DSP_IDLE_RETRY ELSE 0]
    /\ rep' = Rep0
    /\ mem' = << >>
    /\ io' = Io0
    /\ pc' = IF v = 0 THEN "dsp_idle" ELSE "send_ret"

\* where the thread goes when nau8360_massage_to_dsp has returned 0 and
\* nau8360_reply_from_dsp is entered (NAU83G10 has no reply_data branch)
AfterNoData ==
    IF kcs_setup.get_data = NULL
    THEN [pc |-> "send_ret", ret |-> -EINVAL, retries |-> 0]
    ELSE [pc |-> "dsp_replied", ret |-> 0, retries |-> NAU8360_DSP_IDLE_RETRY]

EnterReply ==
    IF chip = "G60" /\ ~reply_data(chip, snd.cmd_id)
    THEN [pc |-> "dsp_replied_nodata", ret |-> 0, retries |-> NAU8360_DSP_IDLE_RETRY]
    ELSE AfterNoData

\* snd_soc_component_write(component, dsp_addr, *value) has returned wret,
\* which the caller does not look at
\* variant: the words are written to the mailbox of the first DSP core,
\* whatever the dsp_addr of the call
Written_FirstCore(w, wret) ==
    [io EXCEPT !.nidle = 0, !.w = Append(@, w),
               !.addrs = @ \cup {NAU8360_RF000_DSP_COMM},
               !.wfail = IF @ = 0 /\ wret # 0 THEN Len(io.w) + 1 ELSE @]

Written(w, wret) ==
    [io EXCEPT !.nidle = 0, !.w = Append(@, w), !.addrs = @ \cup {snd.dsp_addr},
               !.wfail = IF @ = 0 /\ wret # 0 THEN Len(io.w) + 1 ELSE @]

(***************************************************************************)
(* nau8360_dsp_idle: one regmap_read of the idle loop                      *)
(***************************************************************************)
\* variant: the loop's exhaustion is not tested
IdleTimedOut_Untested(retries) == FALSE

\* if (retries == 0) return -EIO, with retries as the loop left it
IdleTimedOut(retries) == retries = 0

\* variant: send does not heed the failure of nau8360_massage_to_dsp and
\* goes on to nau8360_reply_from_dsp
DspIdleRead_Unheeded(res) ==
    /\ pc = "dsp_idle"
    /\ io' = [io EXCEPT !.nidle = @ + 1,
                        !.addrs = @ \cup {snd.dsp_addr},
                        !.idle = (res.ret = 0 /\ res.val = NAU8360_DSP_COMM_IDLE_WORD)]
    /\ IF res.ret = 0 /\ res.val = NAU8360_DSP_COMM_IDLE_WORD
       THEN /\ pc' = "wr_preamble"
            /\ msg' = [msg EXCEPT !.retries = 0]
            /\ UNCHANGED << snd, rep >>
       ELSE IF res.ret = 0 /\ msg.retries - 1 > 0
       THEN /\ pc' = "dsp_idle"
            /\ msg' = [msg EXCEPT !.retries = @ - 1]
            /\ UNCHANGED << snd, rep >>
       ELSE /\ pc' = "dsp_replied"
            /\ msg' = [msg EXCEPT !.retries = 0]
            /\ snd' = snd
            /\ rep' = [rep EXCEPT !.retries = NAU8360_DSP_IDLE_RETRY]
    /\ UNCHANGED << chip, bc, cur, other, ld, op, kcs_setup, up, mem, xlog >>

\* variant: >= for >
IdleGoesOn_OneMore(retries) == retries >= 0

\* the test retries > 0 of the for loop, with retries after the retries--
IdleGoesOn(retries) == retries > 0

DspIdleRead(res) ==
    /\ pc = "dsp_idle"
    /\ io' = [io EXCEPT !.nidle = @ + 1,
                        !.addrs = @ \cup {snd.dsp_addr},
                        !.idle = (res.ret = 0 /\ res.val = NAU8360_DSP_COMM_IDLE_WORD)]
    /\ IF res.ret # 0
       THEN /\ pc' = "send_ret"
            /\ snd' = [snd EXCEPT !.ret = res.ret]
            /\ msg' = msg
       ELSE IF res.val = NAU8360_DSP_COMM_IDLE_WORD
       THEN /\ pc' = "wr_preamble"
            /\ snd' = snd
            \* retries dies with the return of nau8360_dsp_idle
            /\ msg' = [msg EXCEPT !.retries = 0]
       ELSE /\ msg' = [msg EXCEPT !.retries = @ - 1]
            /\ IF IdleGoesOn(msg.retries - 1)
               THEN pc' = "dsp_idle" /\ snd' = snd
               ELSE IF IdleTimedOut(msg.retries - 1)
               THEN pc' = "send_ret" /\ snd' = [snd EXCEPT !.ret = -EIO]
               ELSE pc' = "wr_preamble" /\ snd' = snd
    /\ UNCHANGED << chip, bc, cur, other, ld, op, kcs_setup, rep, up, mem, xlog >>

(***************************************************************************)
(* nau8360_massage_to_dsp: one mailbox write each                          *)
(***************************************************************************)
WritePreamble(wret) ==
    /\ pc = "wr_preamble"
    /\ io' = Written(PreambleWord(snd.cmd_id, snd.frag_len), wret)
    /\ IF ~msg_param(snd.cmd_id)
       THEN /\ pc' = EnterReply.pc
            /\ snd' = [snd EXCEPT !.ret = EnterReply.ret]
            /\ rep' = [rep EXCEPT !.retries = EnterReply.retries]
       ELSE /\ pc' = "wr_descriptor"
            /\ UNCHANGED << snd, rep >>
    /\ UNCHANGED << chip, bc, cur, other, ld, op, kcs_setup, msg, up, mem, xlog >>

WriteDescriptor(wret) ==
    /\ pc = "wr_descriptor"
    /\ io' = Written(DescriptorWord(kcs_setup.set_kcs_offset, kcs_setup.set_len), wret)
    /\ msg' = [msg EXCEPT !.frag_cnt = @ + 1, !.i = 0]
    /\ pc' = IF setup_data(snd.cmd_id) /\ kcs_setup.set_len > 0
             THEN "wr_payload" ELSE "wr_trailer"
    /\ UNCHANGED << chip, bc, cur, other, ld, op, kcs_setup, snd, rep, up, mem, xlog >>

\* the bytes i .. of param_data are gathered and one word is written: a
\* full word while 4 bytes remain, else the last bytes with the padding
WritePayload(wret) ==
    /\ pc = "wr_payload"
    /\ LET param_size == kcs_setup.set_len
           data_size == Min(NAU8360_DSP_DATA_BYTE, param_size - msg.i)
       IN /\ io' = Written(PayloadWord(kcs_setup.set_kcs_data, msg.i, param_size), wret)
          /\ msg' = [msg EXCEPT !.frag_cnt = @ + 1,
                                !.i = @ + data_size,
                                !.padding = NAU8360_DSP_DATA_BYTE - data_size]
          /\ pc' = IF msg.i + data_size < param_size THEN "wr_payload" ELSE "wr_trailer"
    /\ UNCHANGED << chip, bc, cur, other, ld, op, kcs_setup, snd, rep, up, mem, xlog >>

WriteTrailer(wret) ==
    /\ pc = "wr_trailer"
    /\ LET frag_cnt == msg.frag_cnt + 1 IN
       /\ io' = Written(TrailerWord(frag_cnt, msg.padding), wret)
       /\ msg' = [msg EXCEPT !.frag_cnt = frag_cnt]
       /\ IF frag_cnt # snd.frag_len
          THEN /\ pc' = "send_ret"
               /\ snd' = [snd EXCEPT !.ret = -EPROTO]
               /\ rep' = rep
          ELSE /\ pc' = EnterReply.pc
               /\ snd' = [snd EXCEPT !.ret = EnterReply.ret]
               /\ rep' = [rep EXCEPT !.retries = EnterReply.retries]
    /\ UNCHANGED << chip, bc, cur, other, ld, op, kcs_setup, up, mem, xlog >>


(***************************************************************************)
(* nau8360_dsp_replied: one regmap_read of the reply-preamble loop, and    *)
(* what nau8360_reply_from_dsp does with its result                        *)
(***************************************************************************)
\* variant: the reply id is not looked at
ReplyFailed_Never(reply_id) == FALSE

\* if (reply_id == NAU8360_DSP_REPLY_OK) return 0; else ...
ReplyFailed(reply_id) == reply_id # NAU8360_DSP_REPLY_OK

\* variant: the reply id is returned as it is
ReplyError_Unsigned(reply_id) == reply_id

\* return -reply_id
ReplyError(reply_id) == -reply_id

\* variant: >= for >
ReplyGoesOn_OneMore(retries) == retries >= 0

\* the test retries > 0 of the for loop of nau8360_dsp_replied, with retries
\* after the retries--
ReplyGoesOn(retries) == retries > 0

DspReplied(res) ==
    /\ pc \in {"dsp_replied_nodata", "dsp_replied"}
    /\ IF res.ret # 0
       THEN /\ pc' = "send_ret"
            /\ snd' = [snd EXCEPT !.ret = res.ret]
            /\ rep' = rep
       ELSE IF IsPreamble(res.val)
       THEN LET length == ReplyLength(res.val)
                reply_id == ReplyId(res.val)
            IN IF ReplyFailed(reply_id)
               THEN /\ pc' = "send_ret"
                    /\ snd' = [snd EXCEPT !.ret = ReplyError(reply_id)]
                    /\ rep' = [rep EXCEPT !.frag_len = length]
               ELSE IF length = 0
               THEN /\ pc' = "send_ret"
                    /\ snd' = [snd EXCEPT !.ret = 0]
                    /\ rep' = [rep EXCEPT !.frag_len = length]
               ELSE IF pc = "dsp_replied_nodata"
               THEN /\ pc' = AfterNoData.pc
                    /\ snd' = [snd EXCEPT !.ret = AfterNoData.ret]
                    /\ rep' = [rep EXCEPT !.frag_len = length,
                                          !.retries = AfterNoData.retries]
               ELSE /\ pc' = IF length - 1 > 0 THEN "rd_payload" ELSE "rd_trailer"
                    /\ snd' = snd
                    \* retries dies with the return of nau8360_dsp_replied;
                    \* data_count is assigned only when msg_param, and
                    \* without it the value is never used
                    /\ rep' = [rep EXCEPT !.retries = 0,
                                          !.frag_len = length,
                                          !.frag_payload_len = length - 1,
                                          !.data_count = IF msg_param(snd.cmd_id)
                                                         THEN kcs_setup.get_len ELSE 0,
                                          !.i = 0,
                                          !.data_buf = 0]
       ELSE /\ rep' = [rep EXCEPT !.retries = @ - 1]
            /\ IF ReplyGoesOn(rep.retries - 1)
               THEN pc' = pc /\ snd' = snd
               ELSE pc' = "send_ret" /\ snd' = [snd EXCEPT !.ret = -EIO]
    /\ io' = [io EXCEPT !.npoll = IF pc' \in {"send_ret", pc} THEN @ + 1 ELSE 0,
                        !.addrs = @ \cup {snd.dsp_addr},
                        !.r = IF res.ret = 0 /\ IsPreamble(res.val)
                              THEN Append(@, res.val) ELSE @]
    /\ UNCHANGED << chip, bc, cur, other, ld, op, kcs_setup, msg, up, mem, xlog >>

(***************************************************************************)
(* nau8360_reply_from_dsp: one regmap_read of the payload loop             *)
(***************************************************************************)
\* variant: the four bytes of the word are stored whatever data_count
CopyCount_WholeWord(data_count) == NAU8360_DSP_DATA_BYTE

\* bytes the byte-copy branch stores: b[j] is stored, data_count is
\* decremented, and the loop breaks once data_count <= 0
CopyCount(data_count) == IF data_count <= 1 THEN 1 ELSE data_count

\* variant: <= for <
PayloadGoesOn_OneMore(i, frag_payload_len) == i <= frag_payload_len

\* the test i < frag_payload_len of the payload loop, with i after the i++
PayloadGoesOn(i, frag_payload_len) == i < frag_payload_len

ReadPayload(res) ==
    /\ pc = "rd_payload"
    /\ io' = [io EXCEPT !.nrd = @ + 1, !.addrs = @ \cup {snd.dsp_addr},
                        !.r = IF res.ret = 0 THEN Append(@, res.val) ELSE @]
    /\ IF res.ret # 0
       THEN /\ pc' = "send_ret"
            /\ snd' = [snd EXCEPT !.ret = res.ret]
            /\ UNCHANGED << rep, mem >>
       ELSE IF msg_param(snd.cmd_id)
       THEN IF rep.data_count >= NAU8360_DSP_DATA_BYTE
            THEN /\ mem' = Store(mem, rep.data_buf, res.val)
                 /\ rep' = [rep EXCEPT !.data_buf = @ + NAU8360_DSP_DATA_BYTE,
                                       !.data_count = @ - NAU8360_DSP_DATA_BYTE,
                                       !.i = @ + 1]
                 /\ pc' = IF PayloadGoesOn(rep.i + 1, rep.frag_payload_len)
                          THEN "rd_payload" ELSE "rd_trailer"
                 /\ snd' = snd
            ELSE LET n == CopyCount(rep.data_count) IN
                 /\ mem' = Store(mem, rep.data_buf, SubSeq(res.val, 1, n))
                 /\ rep' = [rep EXCEPT !.data_count = @ - n]
                 /\ pc' = "rd_trailer"
                 /\ snd' = snd
       ELSE /\ mem' = Store(mem, rep.data_buf, U32Bytes(LeU32(res.val)))
            /\ rep' = [rep EXCEPT !.i = @ + 1]
            /\ pc' = IF PayloadGoesOn(rep.i + 1, rep.frag_payload_len)
                     THEN "rd_payload" ELSE "rd_trailer"
            /\ snd' = snd
    /\ UNCHANGED << chip, bc, cur, other, ld, op, kcs_setup, msg, up, xlog >>

(***************************************************************************)
(* nau8360_reply_from_dsp: the regmap_read of the trailing fragment        *)
(***************************************************************************)
\* variant: the padding is computed for the replies of every command
PadLenExp_Unconditional ==
    rep.frag_payload_len * NAU8360_DSP_DATA_BYTE
    - (kcs_setup.get_len - rep.data_count)

PadLenExp ==
    IF msg_param(snd.cmd_id)
    THEN rep.frag_payload_len * NAU8360_DSP_DATA_BYTE
         - (kcs_setup.get_len - rep.data_count)
    ELSE 0

\* variant: the padding field of the trailer is not compared
ReadTrailer_PadUnchecked(res) ==
    /\ pc = "rd_trailer"
    /\ io' = [io EXCEPT !.nrd = @ + 1, !.addrs = @ \cup {snd.dsp_addr},
                        !.r = IF res.ret = 0 THEN Append(@, res.val) ELSE @]
    /\ pc' = "send_ret"
    /\ snd' = [snd EXCEPT !.ret =
                 IF res.ret # 0 THEN res.ret
                 ELSE IF LenPos(res.val) # rep.frag_len THEN -EPROTO
                 ELSE 0]
    /\ UNCHANGED << chip, bc, cur, other, ld, op, kcs_setup, msg, rep, up, mem, xlog >>

ReadTrailer(res) ==
    /\ pc = "rd_trailer"
    /\ io' = [io EXCEPT !.nrd = @ + 1, !.addrs = @ \cup {snd.dsp_addr},
                        !.r = IF res.ret = 0 THEN Append(@, res.val) ELSE @]
    /\ pc' = "send_ret"
    /\ snd' = [snd EXCEPT !.ret =
                 IF res.ret # 0 THEN res.ret
                 ELSE IF LenPos(res.val) # rep.frag_len THEN -EPROTO
                 ELSE IF PadLen(res.val) # PadLenExp THEN -EPROTO
                 ELSE 0]
    /\ UNCHANGED << chip, bc, cur, other, ld, op, kcs_setup, msg, rep, up, mem, xlog >>

(***************************************************************************)
(* A caller of nau8360_send_dsp_command                                    *)
(***************************************************************************)
\* payload lengths of a direct send of SetKcsSetup
SetLens ==
    (0..9) \cup {NAU8360_DSP_KCS_TX_MAX - 1, NAU8360_DSP_KCS_TX_MAX,
               NAU8360_DSP_KCS_TX_MAX + 1, MaxSendLen - 2, MaxSendLen - 1, MaxSendLen,
               KCS_DAT_LEN_MAX("G60")}

SendArgs(cmd_id) ==
    IF setup_data(cmd_id)
    THEN { [set_len |-> l, set_kcs_offset |-> o, set_kcs_data |-> d,
            get_len |-> 4, get_data |-> g] :
           l \in SetLens, o \in {785},
           d \in {NullPtr, [buf |-> 1, pos |-> 0]}, g \in {NULL, 1} }
    ELSE IF msg_param(cmd_id)
    THEN { [set_len |-> l[1], set_kcs_offset |-> o, set_kcs_data |-> NullPtr,
            get_len |-> l[2], get_data |-> g] :
           l \in { <<0, 0>>, <<1, 1>>, <<4, 4>>, <<5, 5>>, <<8, 8>>,
                   <<1023, 4>>, <<1024, 4>>, <<1025, 4>> },
           o \in {0, NAU8360_DSP_KCS_OFFSET_MAX, NAU8360_DSP_KCS_OFFSET_MAX + 1},
           g \in {NULL, 1} }
    ELSE { [set_len |-> 4, set_kcs_offset |-> 0, set_kcs_data |-> NullPtr,
            get_len |-> 4, get_data |-> g] : g \in {NULL, 1} }

\* opcodes a caller passes: the eight commands and three that are none
CallerCmds == DspCommands \cup {0, 2, 13}

\* nau8360_dsp_addr[]; the NAU83G10 has the one mailbox
nau8360_dsp_addr == << NAU8360_RF000_DSP_COMM, NAU8360_RF002_DSP_COMM >>
NAU8360_DSP_FW_NUM(c) == IF c = "G60" THEN 2 ELSE 1
DspAddrs(c) == { nau8360_dsp_addr[i] : i \in 1..NAU8360_DSP_FW_NUM(c) }

CallSend(cmd_id, ks, dsp_addr) ==
    /\ pc = "ready"
    /\ op' = "send"
    /\ kcs_setup' = ks
    /\ EnterSend(cmd_id, ks, dsp_addr)
    /\ UNCHANGED << chip, bc, cur, other, ld, up, xlog >>


(***************************************************************************)
(* nau8360_dsp_kcs_setup                                                   *)
(***************************************************************************)
\* values the never-assigned get_len of the on-stack kcs_setup_comp may hold
StackGarbage == {0, 4}

\* <<start offset, buffer length, DSP core>> handed to the uploader
UploadArgs ==
    { <<0, 0, 1>>, <<0, 1, 2>>,
      <<NAU8360_DSP_KCS_OFFSET_MAX, NAU8360_DSP_KCS_TX_MAX, 1>>,
      <<16, NAU8360_DSP_KCS_TX_MAX + 1, 2>>, <<0, MaxUploadLen, 1>>,
      <<0, KCS_DAT_LEN_MAX("G60") + 1, 1>>,
      <<NAU8360_DSP_KCS_OFFSET_MAX, KCS_DAT_LEN_MAX("G60"), 1>>,
      <<NAU8360_DSP_KCS_OFFSET_MAX, KCS_DAT_LEN_MAX("G10"), 1>>,
      <<NAU8360_DSP_KCS_OFFSET_MAX + 1, 1, 1>> }

\* what one finished exchange leaves in the history of the upload: the
\* arguments of send, whether it succeeded, and the frame written when it
\* succeeded
Exchange ==
    [cmd_id |-> snd.cmd_id, set_kcs_offset |-> kcs_setup.set_kcs_offset,
     set_len |-> kcs_setup.set_len, dsp_addr |-> snd.dsp_addr,
     ok |-> ~(snd.ret < 0), w |-> IF snd.ret < 0 THEN << >> ELSE io.w]

\* variant: the chunk is not capped
ChunkLen_Uncapped(data_rem) == data_rem

\* data_len of the next chunk
ChunkLen(data_rem) ==
    IF data_rem > NAU8360_DSP_KCS_TX_MAX THEN NAU8360_DSP_KCS_TX_MAX ELSE data_rem

\* variant: a failed chunk write is not sent again
MayRetry_Never(retries) == FALSE

\* variant: a failed chunk write is sent again without end
MayRetry_Always(retries) == TRUE

\* variant: <= for <
MayRetry_OneMore(retries) == retries <= NAU8360_DSP_RETRY_MAX

\* retries++ < NAU8360_DSP_RETRY_MAX, with retries as it was before the ++
MayRetry(retries) == retries < NAU8360_DSP_RETRY_MAX

\* the head of the while (data_rem) loop with the frame u and the struct
\* ks: the upload returns 0, or the next chunk is handed to send.  An upload
\* is followed over the chunks that start in its first MaxUploadLen bytes.
UploadLoop(u, ks) ==
    IF u.data_rem = 0
    THEN /\ up' = [u EXCEPT !.ret = 0]
         /\ kcs_setup' = ks
         /\ pc' = "done"
         /\ UNCHANGED << snd, msg, rep, mem, io >>
    ELSE LET data_len == ChunkLen(u.data_rem)
             ks1 == [ks EXCEPT !.set_kcs_offset = u.addr_offset,
                               !.set_len = data_len,
                               !.set_kcs_data = [buf |-> u.data, pos |-> u.data_buf]]
         IN /\ u.addr_offset - u.offset <= MaxUploadLen
            /\ up' = [u EXCEPT !.data_len = data_len,
                               !.cmd_id = NAU8360_DSP_CMD_SET_KCS_SETUP]
            /\ kcs_setup' = ks1
            /\ EnterSend(NAU8360_DSP_CMD_SET_KCS_SETUP, ks1, u.dsp_addr)

\* variant: the size is not tested
UploadInvalid_NoSizeTest(c, offset, size, data) ==
    \/ data = NULL
    \/ offset > NAU8360_DSP_KCS_OFFSET_MAX

\* variant: the offset is not tested
UploadInvalid_NoOffsetTest(c, offset, size, data) ==
    \/ data = NULL
    \/ size > KCS_DAT_LEN_MAX(c)

\* if (!data || size > NAU8360_DSP_KCS_DAT_LEN_MAX ||
\*     offset > NAU8360_DSP_KCS_OFFSET_MAX)
UploadInvalid(c, offset, size, data) ==
    \/ data = NULL
    \/ size > KCS_DAT_LEN_MAX(c)
    \/ offset > NAU8360_DSP_KCS_OFFSET_MAX

\* nau8360_dsp_kcs_setup is entered; garbage is what the get_len of its
\* kcs_setup_comp holds
EnterUpload(offset, size, data, dsp_addr, garbage) ==
    LET u0 == [Up0 EXCEPT !.offset = offset, !.size = size, !.data = data,
                          !.dsp_addr = dsp_addr,
                          !.cmd_id = NAU8360_DSP_CMD_SET_KCS_SETUP]
        ks0 == [Kcs0 EXCEPT !.get_len = garbage]
    IN IF UploadInvalid(chip, offset, size, data)
       THEN /\ up' = [u0 EXCEPT !.ret = -EINVAL]
            /\ kcs_setup' = ks0
            /\ pc' = "done"
            /\ UNCHANGED << snd, msg, rep, mem, io >>
       ELSE UploadLoop([u0 EXCEPT !.data_buf = 0, !.addr_offset = offset,
                                  !.data_rem = size, !.retries = 0,
                                  !.entered = TRUE],
                       [ks0 EXCEPT !.get_data = 1])

CallUpload(offset, size, data, dsp_addr, garbage) ==
    /\ pc = "ready"
    /\ op' = "upload"
    /\ xlog' = << >>
    /\ EnterUpload(offset, size, data, dsp_addr, garbage)
    /\ UNCHANGED << chip, bc, cur, other, ld >>

\* variant: the chunk is not checked with GET_KCS_RSLTS
UploadAfterSet_Unchecked ==
    /\ pc = "send_ret"
    /\ op = "upload"
    /\ up.cmd_id = NAU8360_DSP_CMD_SET_KCS_SETUP
    /\ xlog' = Append(xlog, Exchange)
    /\ IF snd.ret < 0
       THEN IF MayRetry(up.retries)
            THEN UploadLoop([up EXCEPT !.retries = @ + 1], kcs_setup)
            ELSE /\ up' = [up EXCEPT !.retries = @ + 1, !.ret = snd.ret]
                 /\ pc' = "done"
                 /\ UNCHANGED << kcs_setup, snd, msg, rep, mem, io >>
       ELSE UploadLoop([up EXCEPT !.data_buf = @ + U8(up.data_len),
                                  !.addr_offset = @ + up.data_len,
                                  !.data_rem = @ - up.data_len],
                       kcs_setup)
    /\ UNCHANGED << chip, bc, cur, other, ld, op >>

\* send has returned to the SET_KCS_SETUP call site
\* variant: data_buf is a pointer to words, and moves by data_len of them
DataAdvance_Words(data_len) == NAU8360_DSP_DATA_BYTE * data_len

\* data_buf += (u8)data_len
DataAdvance(data_len) == U8(data_len)

\* variant: retries = 0 after a chunk that was written
RetriesAfterChunk_Reset(retries) == retries - retries

\* retries after a chunk that was written: the else branch assigns
\* data_buf, addr_offset and data_rem, and leaves retries as it is
RetriesAfterChunk(retries) == retries

UploadAfterSet ==
    /\ pc = "send_ret"
    /\ op = "upload"
    /\ up.cmd_id = NAU8360_DSP_CMD_SET_KCS_SETUP
    /\ xlog' = Append(xlog, Exchange)
    /\ IF snd.ret < 0
       THEN IF MayRetry(up.retries)
            THEN UploadLoop([up EXCEPT !.retries = @ + 1], kcs_setup)
            ELSE /\ up' = [up EXCEPT !.retries = @ + 1, !.ret = snd.ret]
                 /\ pc' = "done"
                 /\ UNCHANGED << kcs_setup, snd, msg, rep, mem, io >>
       ELSE LET ks1 == [kcs_setup EXCEPT !.set_kcs_offset = 0,
                                         !.set_len = NAU8360_DSP_DATA_BYTE,
                                         !.get_len = NAU8360_DSP_DATA_BYTE]
            IN /\ up' = [up EXCEPT !.data_buf = @ + DataAdvance(up.data_len),
                                   !.addr_offset = @ + up.data_len,
                                   !.data_rem = @ - up.data_len,
                                   !.retries = RetriesAfterChunk(@),
                                   !.cmd_id = NAU8360_DSP_CMD_GET_KCS_RSLTS]
               /\ kcs_setup' = ks1
               /\ EnterSend(NAU8360_DSP_CMD_GET_KCS_RSLTS, ks1, up.dsp_addr)
    /\ UNCHANGED << chip, bc, cur, other, ld, op >>

\* variant: a failed check does not end the upload
UploadAfterGet_Unheeded ==
    /\ pc = "send_ret"
    /\ op = "upload"
    /\ up.cmd_id = NAU8360_DSP_CMD_GET_KCS_RSLTS
    /\ xlog' = Append(xlog, Exchange)
    /\ UploadLoop(up, kcs_setup)
    /\ UNCHANGED << chip, bc, cur, other, ld, op >>

\* send has returned to the GET_KCS_RSLTS call site
UploadAfterGet ==
    /\ pc = "send_ret"
    /\ op = "upload"
    /\ up.cmd_id = NAU8360_DSP_CMD_GET_KCS_RSLTS
    /\ xlog' = Append(xlog, Exchange)
    /\ IF snd.ret < 0
       THEN /\ up' = [up EXCEPT !.ret = snd.ret]
            /\ pc' = "done"
            /\ UNCHANGED << kcs_setup, snd, msg, rep, mem, io >>
       ELSE UploadLoop(up, kcs_setup)
    /\ UNCHANGED << chip, bc, cur, other, ld, op >>

(***************************************************************************)
(* nau8360_send_dsp_broadcast, called by nau8360_dsp_clock_event           *)
(***************************************************************************)
\* the commands of the two events of the DSP Clock widget
ClockEventCmds == { NAU8360_DSP_CMD_CLK_RESTART, NAU8360_DSP_CMD_CLK_STOP }

\* nau8360_dsp_clock_event hands over its kcs_setup_comp as the stack left
\* it; of its fields the exchange of a clock command reads get_data alone
ClockEventArgs == { [Kcs0 EXCEPT !.get_data = g] : g \in {NULL, 1} }

\* for (i = 0; ...): the first send, on nau8360_dsp_addr[0]
CallBroadcast(cmd_id, ks) ==
    /\ pc = "ready"
    /\ chip = "G60"
    /\ op' = "broadcast"
    /\ bc' = [i |-> 0, ret |-> 0]
    /\ xlog' = << >>
    /\ kcs_setup' = ks
    /\ EnterSend(cmd_id, ks, nau8360_dsp_addr[1])
    /\ UNCHANGED << chip, up, cur, other, ld >>

\* variant: the failure of a send does not end the loop
BroadcastStop_Never(ret) == FALSE

\* if (ret) { ...; return ret; }
BroadcastStop(ret) == ret # 0

\* the loop is at its end after the send on the mailbox number i (from 0)
BroadcastEnd(c, i) == ~(i + 1 < NAU8360_DSP_FW_NUM(c))

\* send has returned to nau8360_send_dsp_broadcast: if (ret) return ret;
\* else i++ and the next send, or return 0
BroadcastAfterSend ==
    /\ pc = "send_ret"
    /\ op = "broadcast"
    /\ xlog' = Append(xlog, Exchange)
    /\ IF BroadcastStop(snd.ret)
       THEN /\ bc' = [bc EXCEPT !.ret = snd.ret]
            /\ pc' = "done"
            /\ UNCHANGED << kcs_setup, snd, msg, rep, mem, io >>
       ELSE IF BroadcastEnd(chip, bc.i)
       THEN /\ bc' = [i |-> bc.i + 1, ret |-> 0]
            /\ pc' = "done"
            /\ UNCHANGED << kcs_setup, snd, msg, rep, mem, io >>
       ELSE /\ bc' = [bc EXCEPT !.i = @ + 1]
            /\ kcs_setup' = kcs_setup
            /\ EnterSend(snd.cmd_id, kcs_setup, nau8360_dsp_addr[bc.i + 2])
    /\ UNCHANGED << chip, op, up, cur, other, ld >>

(***************************************************************************)
(* The two threads. The locals, the arguments and the histories above are  *)
(* those of the thread that runs; other holds them for the thread that     *)
(* does not.                                                               *)
(***************************************************************************)
Ctx ==
    [pc |-> pc, op |-> op, kcs_setup |-> kcs_setup, snd |-> snd, msg |-> msg,
     rep |-> rep, up |-> up, bc |-> bc, mem |-> mem, io |-> io, xlog |-> xlog]

Ctx0 ==
    [pc |-> "ready", op |-> "none", kcs_setup |-> Kcs0, snd |-> Snd0, msg |-> Msg0,
     rep |-> Rep0, up |-> Up0, bc |-> Bc0, mem |-> << >>, io |-> Io0, xlog |-> << >>]

(***************************************************************************)
(* Specification                                                           *)
(***************************************************************************)
Init ==
    /\ chip \in Chips
    /\ pc = "ready"
    /\ op = "none"
    /\ kcs_setup = Kcs0
    /\ snd = Snd0
    /\ msg = Msg0
    /\ rep = Rep0
    /\ up = Up0
    /\ bc = Bc0
    /\ mem = << >>
    /\ io = Io0
    /\ xlog = << >>
    /\ ld = Ld0
    /\ cur = 1
    /\ other = Ctx0

Next ==
    \/ \E cmd_id \in CallerCmds, a \in DspAddrs(chip) :
          \E ks \in SendArgs(cmd_id) : CallSend(cmd_id, ks, a)
    \/ \E args \in UploadArgs, d \in {NULL, 1}, g \in StackGarbage :
          /\ args[3] <= NAU8360_DSP_FW_NUM(chip)
          /\ CallUpload(args[1], args[2], d, nau8360_dsp_addr[args[3]], g)
    \/ \E res \in ReadResults(IdleWords) : DspIdleRead(res)
    \/ \E wret \in WriteOk : WritePreamble(wret)
    \/ \E wret \in WriteOk : WriteDescriptor(wret)
    \/ \E wret \in WriteOk : WritePayload(wret)
    \/ \E wret \in WriteOk : WriteTrailer(wret)
    \/ \E res \in ReadResults(PreambleWords) : DspReplied(res)
    \/ \E res \in ReadResults(PayloadWords) : ReadPayload(res)
    \/ \E res \in ReadResults(TrailerWords) : ReadTrailer(res)
    \/ UploadAfterSet
    \/ UploadAfterGet
    \/ \E cmd_id \in ClockEventCmds, ks \in ClockEventArgs : CallBroadcast(cmd_id, ks)
    \/ BroadcastAfterSend

Spec == Init /\ [][Next]_vars

(***************************************************************************)
(* The exchanges of send on a bus whose writes can fail as its reads can   *)
(***************************************************************************)
\* the calls followed on that bus: a command without a parameter, one
\* with a parameter and one with a payload of up to two words
IoCmds ==
    { NAU8360_DSP_CMD_GET_COUNTER, NAU8360_DSP_CMD_GET_KCS_RSLTS,
      NAU8360_DSP_CMD_SET_KCS_SETUP }
IoSendArgs(cmd_id) ==
    { ks \in SendArgs(cmd_id) : ks.set_len <= 2 * NAU8360_DSP_DATA_BYTE }

NextIO ==
    \/ \E cmd_id \in IoCmds : \E ks \in IoSendArgs(cmd_id) :
          CallSend(cmd_id, ks, nau8360_dsp_addr[1])
    \/ \E res \in ReadResults(IdleWords) : DspIdleRead(res)
    \/ \E wret \in WriteResults : WritePreamble(wret)
    \/ \E wret \in WriteResults : WriteDescriptor(wret)
    \/ \E wret \in WriteResults : WritePayload(wret)
    \/ \E wret \in WriteResults : WriteTrailer(wret)
    \/ \E res \in ReadResults(PreambleWords) : DspReplied(res)
    \/ \E res \in ReadResults(PayloadWords) : ReadPayload(res)
    \/ \E res \in ReadResults(TrailerWords) : ReadTrailer(res)

SpecIO == Init /\ [][NextIO]_vars

(***************************************************************************)
(* Two threads in the driver. No function of the driver takes a lock, so   *)
(* the thread that runs can be set aside between any two of its mailbox    *)
(* accesses and the other one run.                                         *)
(***************************************************************************)
Switch ==
    /\ cur' = 3 - cur
    /\ other' = Ctx
    /\ pc' = other.pc
    /\ op' = other.op
    /\ kcs_setup' = other.kcs_setup
    /\ snd' = other.snd
    /\ msg' = other.msg
    /\ rep' = other.rep
    /\ up' = other.up
    /\ bc' = other.bc
    /\ mem' = other.mem
    /\ io' = other.io
    /\ xlog' = other.xlog
    /\ UNCHANGED << chip, ld >>

\* nau8360_dsp_get_cmd_put, the put of the mixer controls of a DSP command:
\* get_len = set_len = sizeof(int), get_data = value
GetCmdPutArgs ==
    [set_len |-> NAU8360_DSP_DATA_BYTE, set_kcs_offset |-> 0,
     set_kcs_data |-> NullPtr, get_len |-> NAU8360_DSP_DATA_BYTE, get_data |-> 1]

\* the uploads that are followed to their end: the rejected ones, and those
\* whose chunks all start in the first MaxUploadLen bytes
LiveUploadArgs ==
    { args \in UploadArgs :
         \/ \A c \in {"G60", "G10"} : UploadInvalid(c, args[1], args[2], 1)
         \/ args[2] <= MaxUploadLen }

\* calls of send and the uploads that are followed to their end, on a
\* thread that is never stopped for good: every register access returns, and
\* the delays between the polls are of bounded length
NextLive ==
    \/ \E cmd_id \in IoCmds, a \in DspAddrs(chip) :
          \E ks \in IoSendArgs(cmd_id) : CallSend(cmd_id, ks, a)
    \/ \E args \in LiveUploadArgs, d \in {NULL, 1}, g \in StackGarbage :
          /\ args[3] <= NAU8360_DSP_FW_NUM(chip)
          /\ CallUpload(args[1], args[2], d, nau8360_dsp_addr[args[3]], g)
    \/ \E res \in ReadResults(IdleWords) : DspIdleRead(res)
    \/ \E wret \in WriteOk : WritePreamble(wret)
    \/ \E wret \in WriteOk : WriteDescriptor(wret)
    \/ \E wret \in WriteOk : WritePayload(wret)
    \/ \E wret \in WriteOk : WriteTrailer(wret)
    \/ \E res \in ReadResults(PreambleWords) : DspReplied(res)
    \/ \E res \in ReadResults(PayloadWords) : ReadPayload(res)
    \/ \E res \in ReadResults(TrailerWords) : ReadTrailer(res)
    \/ UploadAfterSet
    \/ UploadAfterGet

SpecLive == Init /\ [][NextLive]_vars /\ WF_vars(NextLive)

(***************************************************************************)
(* nau8360_dsp_set_kcs_setup and nau8360_dsp_chan_kcs_setup, the firmware  *)
(* load of every DSP core (NAU83G10: nau8310_dsp_set_kcs_setup, one core). *)
(* ld.status holds the low 16 bits of the local status; ld.log is the      *)
(* history of the load: one record for every GET_FRAME_STATUS exchange and *)
(* one for every call of nau8360_dsp_kcs_setup.                            *)
(***************************************************************************)
NAU8360_DSP_ALGO_OK == 1
ENOENT == 2

\* status & NAU8360_DSP_ALGO_OK
AlgoOk(status) == status % (2 * NAU8360_DSP_ALGO_OK) >= NAU8360_DSP_ALGO_OK

\* values the local status may hold before the exchange: it is never
\* assigned in nau8360_dsp_chan_kcs_setup, and starts as 0 in
\* nau8310_dsp_set_kcs_setup
StatusGarbage(c) == IF c = "G60" THEN {0, 1} ELSE {0}

\* results of request_firmware
FwResults == {0, -ENOENT}

\* fw->size of the image request_firmware has found
FwSizes == {1, 1025}

\* the GET_FRAME_STATUS exchange of nau8360_dsp_get_cmd_put on core i + 1
EnterStatus(i) ==
    /\ op' = "load"
    /\ kcs_setup' = GetCmdPutArgs
    /\ EnterSend(NAU8360_DSP_CMD_GET_FRAME_STATUS, GetCmdPutArgs,
                 nau8360_dsp_addr[i + 1])

CallLoad(garbage) ==
    /\ pc = "ready"
    /\ ld' = [Ld0 EXCEPT !.phase = "status", !.status = garbage]
    /\ EnterStatus(0)
    /\ UNCHANGED << chip, bc, cur, other, up, xlog >>

\* the status the caller reads once the exchange has returned: the word the
\* decoder stored through get_data, or what status held before
StatusRead == IF mem # << >> THEN LeU32(mem).lo ELSE ld.status

StatusRecord ==
    [kind |-> "status", dsp_addr |-> snd.dsp_addr, ok |-> snd.ret = 0,
     ready |-> mem # << >> /\ AlgoOk(LeU32(mem).lo), nset |-> 0]

\* nau8360_dsp_get_cmd_put has returned: the test of ret and status, then
\* request_firmware with the result fwret and an image of size bytes, then
\* the call of nau8360_dsp_kcs_setup
LoadAfterStatus(fwret, size, garbage) ==
    /\ pc = "send_ret"
    /\ op = "load"
    /\ LET log == Append(ld.log, StatusRecord)
           l == [ld EXCEPT !.status = StatusRead, !.log = log]
       IN IF snd.ret # 0 \/ ~AlgoOk(StatusRead)
          THEN /\ ld' = [l EXCEPT !.phase = "done",
                                  !.ret = IF chip = "G60" \/ snd.ret = 0
                                          THEN -EIO ELSE snd.ret]
               /\ pc' = "done"
               /\ UNCHANGED << op, kcs_setup, snd, msg, rep, mem, io, up, xlog >>
          ELSE IF fwret # 0
          THEN /\ ld' = [l EXCEPT !.phase = "done", !.ret = fwret]
               /\ pc' = "done"
               /\ UNCHANGED << op, kcs_setup, snd, msg, rep, mem, io, up, xlog >>
          ELSE /\ ld' = [l EXCEPT !.phase = "upload"]
               /\ op' = "upload"
               /\ xlog' = << >>
               /\ EnterUpload(0, size, 1, snd.dsp_addr, garbage)
    /\ UNCHANGED << chip, bc, cur, other >>

UploadRecord ==
    [kind |-> "upload", dsp_addr |-> up.dsp_addr, ok |-> up.ret = 0,
     ready |-> FALSE,
     nset |-> Cardinality({ k \in 1..Len(xlog) :
                              xlog[k].cmd_id = NAU8360_DSP_CMD_SET_KCS_SETUP })]

\* nau8360_dsp_kcs_setup has returned: the loop of nau8360_dsp_set_kcs_setup
\* ends on a failure and goes to the next core otherwise, where garbage is
\* what the status of the new call holds
LoadAfterUpload(garbage) ==
    /\ pc = "done"
    /\ op = "upload"
    /\ ld.phase = "upload"
    /\ LET l == [ld EXCEPT !.log = Append(ld.log, UploadRecord)]
       IN IF up.ret # 0
          THEN /\ ld' = [l EXCEPT !.phase = "done", !.ret = up.ret]
               /\ UNCHANGED << pc, op, kcs_setup, snd, msg, rep, mem, io >>
          ELSE IF ld.i + 1 < NAU8360_DSP_FW_NUM(chip)
          THEN /\ ld' = [l EXCEPT !.phase = "status", !.i = @ + 1,
                                  !.status = garbage]
               /\ EnterStatus(ld.i + 1)
          ELSE /\ ld' = [l EXCEPT !.phase = "done", !.i = @ + 1, !.ret = 0]
               /\ UNCHANGED << pc, op, kcs_setup, snd, msg, rep, mem, io >>
    /\ UNCHANGED << chip, bc, cur, other, up, xlog >>

NextLoad ==
    \/ \E g \in StatusGarbage(chip) : CallLoad(g)
    \/ \E res \in ReadResults(IdleWords) : DspIdleRead(res)
    \/ \E wret \in WriteOk : WritePreamble(wret)
    \/ \E wret \in WriteOk : WriteDescriptor(wret)
    \/ \E wret \in WriteOk : WritePayload(wret)
    \/ \E wret \in WriteOk : WriteTrailer(wret)
    \/ \E res \in ReadResults(PreambleWords) : DspReplied(res)
    \/ \E res \in ReadResults(PayloadWords) : ReadPayload(res)
    \/ \E res \in ReadResults(TrailerWords) : ReadTrailer(res)
    \/ UploadAfterSet
    \/ UploadAfterGet
    \/ \E fwret \in FwResults, size \in FwSizes, g \in StackGarbage :
          LoadAfterStatus(fwret, size, g)
    \/ \E g \in StatusGarbage(chip) : LoadAfterUpload(g)

SpecLoad == Init /\ [][NextLoad]_vars

(***************************************************************************)
(* The fields of the preamble and of the trailer, written by the encoder  *)
(* and read back by the decoder: every value of the 10-bit fragment       *)
(* count, of the 6-bit opcode or reply id, and of the 2-bit padding.      *)
(***************************************************************************)
FragCounts == 0..1023
FieldIds == 0..63
Paddings == 0..3

\* the preamble bytes nau8360_massage_to_dsp builds of (cmd_id, frag_len),
\* taken by nau8360_dsp_replied: *length of them is kept in rep.frag_len
MirrorPreamble(cmd_id, frag_len) ==
    /\ pc = "ready"
    /\ op' = "mirror_preamble"
    /\ pc' = "done"
    /\ snd' = [snd EXCEPT !.cmd_id = cmd_id, !.frag_len = frag_len]
    /\ io' = [io EXCEPT !.w = << PreambleWord(cmd_id, frag_len) >>,
                        !.r = << PreambleWord(cmd_id, frag_len) >>]
    /\ rep' = [rep EXCEPT !.frag_len = ReplyLength(PreambleWord(cmd_id, frag_len))]
    /\ UNCHANGED << chip, bc, cur, other, ld, kcs_setup, msg, up, mem, xlog >>

\* the trailer bytes nau8360_massage_to_dsp builds of (frag_cnt, padding),
\* taken by nau8360_reply_from_dsp
MirrorTrailer(frag_cnt, padding) ==
    /\ pc = "ready"
    /\ op' = "mirror_trailer"
    /\ pc' = "done"
    /\ msg' = [msg EXCEPT !.frag_cnt = frag_cnt, !.padding = padding]
    /\ io' = [io EXCEPT !.w = << TrailerWord(frag_cnt, padding) >>,
                        !.r = << TrailerWord(frag_cnt, padding) >>]
    /\ UNCHANGED << chip, bc, cur, other, ld, kcs_setup, snd, rep, up, mem, xlog >>

NextMirror ==
    \/ pc = "ready" /\ \E id \in FieldIds, c \in FragCounts : MirrorPreamble(id, c)
    \/ pc = "ready" /\ \E c \in FragCounts, p \in Paddings : MirrorTrailer(c, p)

SpecMirror == Init /\ [][NextMirror]_vars

\* the words the device returns to the two threads: the poll of the reply
\* sees no preamble, an Ok preamble without or with a payload word, or an
\* error preamble; the trailer has the fragment count of that preamble or
\* another one
ParPreambleWords ==
    { NAU8360_DSP_COMM_IDLE_WORD, PreambleWord(NAU8360_DSP_REPLY_OK, 0),
      PreambleWord(NAU8360_DSP_REPLY_OK, 2), PreambleWord(1, 2) }
ParPayloadWords == { <<1, 2, 3, 244>> }
ParTrailerWords == { TrailerWord(2, 0), TrailerWord(1, 0) }

\* each thread makes one call: thread 1 the put of "DSP get counter
\* command" of one of the DSP cores, thread 2 the upload of one byte to one
\* of the DSP cores or the DSP clock event of the power sequence
NextPar ==
    \/ \E a \in DspAddrs(chip) :
          cur = 1 /\ CallSend(NAU8360_DSP_CMD_GET_COUNTER, GetCmdPutArgs, a)
    \/ \E a \in DspAddrs(chip), g \in StackGarbage :
          cur = 2 /\ CallUpload(0, 1, 1, a, g)
    \/ \E cmd_id \in ClockEventCmds, ks \in ClockEventArgs :
          cur = 2 /\ CallBroadcast(cmd_id, ks)
    \/ \E res \in ReadResults(IdleWords) : DspIdleRead(res)
    \/ \E wret \in WriteOk : WritePreamble(wret)
    \/ \E wret \in WriteOk : WriteDescriptor(wret)
    \/ \E wret \in WriteOk : WritePayload(wret)
    \/ \E wret \in WriteOk : WriteTrailer(wret)
    \/ \E res \in ReadResults(ParPreambleWords) : DspReplied(res)
    \/ \E res \in ReadResults(ParPayloadWords) : ReadPayload(res)
    \/ \E res \in ReadResults(ParTrailerWords) : ReadTrailer(res)
    \/ UploadAfterSet
    \/ UploadAfterGet
    \/ BroadcastAfterSend
    \/ Switch

SpecPar == Init /\ [][NextPar]_vars

(***************************************************************************)
(* Properties                                                              *)
(***************************************************************************)
\* the message frame of the current exchange is written to its end
FrameWritten ==
    /\ io.w # << >>
    /\ pc \notin {"wr_descriptor", "wr_payload", "wr_trailer"}

\* fields of the parameter descriptor of the written frame w
DescOffset(w) == w[2][1] + 256 * w[2][2]
DescSize(w) == w[2][3] + 256 * w[2][4]

\* the bytes of the payload words of the written frame w, in order
FrameBytes(w) ==
    [k \in 1..(4 * (Len(w) - 3)) |-> w[3 + ((k - 1) \div 4)][1 + ((k - 1) % 4)]]

\* the exchanges of the upload that sent SET_KCS_SETUP
IsSet(e) == e.cmd_id = NAU8360_DSP_CMD_SET_KCS_SETUP
IsGet(e) == e.cmd_id = NAU8360_DSP_CMD_GET_KCS_RSLTS
SetLog == SelectSeq(xlog, IsSet)

UploadDone == pc = "done" /\ op = "upload"
UploadRunning == op = "upload" /\ pc # "done"

\* C1: when all ten reads of the idle poll return a word that is not the
\* idle word, send returns the timeout error -EIO; and as long as the idle
\* word has not been read, no word has been written to the mailbox and no
\* read of the reply (preamble poll, payload, trailer) has been made.
C1_IdleTimeout ==
    /\ ~io.idle =>
          /\ io.w = << >>
          /\ io.npoll = 0 /\ io.nrd = 0 /\ io.r = << >>
          /\ pc \in {"ready", "dsp_idle", "send_ret", "done"}
    /\ (pc = "send_ret" /\ ~io.idle /\ io.nidle = 10 /\ msg.retries = 0) =>
          snd.ret = -EIO

C1_Witness ==
    /\ pc = "send_ret" /\ op = "send"
    /\ ~io.idle /\ io.nidle = 10 /\ msg.retries = 0
    /\ snd.ret = -EIO /\ io.w = << >> /\ io.nrd = 0 /\ io.npoll = 0

SetAttempts(off) ==
    Cardinality({k \in DOMAIN xlog : IsSet(xlog[k]) /\ xlog[k].set_kcs_offset = off})
    + (IF /\ UploadRunning
          /\ up.cmd_id = NAU8360_DSP_CMD_SET_KCS_SETUP
          /\ kcs_setup.set_kcs_offset = off
       THEN 1 ELSE 0)
SetFailures(off) ==
    Cardinality({k \in DOMAIN xlog :
                    IsSet(xlog[k]) /\ ~xlog[k].ok /\ xlog[k].set_kcs_offset = off})
\* the cursor positions the upload has sent a chunk for
ChunkOffsets ==
    {xlog[k].set_kcs_offset : k \in {j \in DOMAIN xlog : IsSet(xlog[j])}}
    \cup (IF UploadRunning /\ up.cmd_id = NAU8360_DSP_CMD_SET_KCS_SETUP
          THEN {kcs_setup.set_kcs_offset} ELSE {})

\* C3 as stated: no chunk write is attempted more than 3 times.
C3_AsStated == \A off \in ChunkOffsets : SetAttempts(off) <= 3

\* C3: no chunk write (SET_KCS_SETUP for one cursor position) is attempted
\* more than 4 times in total, and after the 4th failed attempt of a chunk
\* the upload has ended with the error of that last attempt.
C3_RetryLimit ==
    \A off \in ChunkOffsets :
        /\ SetAttempts(off) <= 4
        /\ SetFailures(off) = 4 =>
              /\ pc = "done"
              /\ IsSet(xlog[Len(xlog)]) /\ ~xlog[Len(xlog)].ok
              /\ xlog[Len(xlog)].set_kcs_offset = off
              /\ snd.ret < 0 /\ up.ret = snd.ret

C3_Witness ==
    /\ UploadDone /\ up.ret < 0 /\ up.ret = snd.ret
    /\ \E off \in ChunkOffsets : SetFailures(off) = 4 /\ SetAttempts(off) = 4

\* the exchange e is the check of a chunk on the mailbox addr
IsGetCheck(e, addr) ==
    /\ IsGet(e) /\ e.set_len = 4 /\ e.set_kcs_offset = 0 /\ e.dsp_addr = addr
    /\ e.ok => (Len(e.w) = 3 /\ DescOffset(e.w) = 0 /\ DescSize(e.w) = 4)

\* C4: in an upload, a SET_KCS_SETUP exchange that succeeded is followed at
\* once by one GET_KCS_RSLTS exchange (size 4, offset 0) on the same mailbox,
\* and no GET_KCS_RSLTS follows anything else; a SET_KCS_SETUP exchange that
\* failed is followed by no GET_KCS_RSLTS; a GET_KCS_RSLTS exchange that
\* failed is the last exchange of the upload, which has ended with an error.
C4_SetThenGet ==
    \A k \in DOMAIN xlog :
        LET e == xlog[k] IN
        /\ (IsSet(e) /\ e.ok) =>
              IF k < Len(xlog)
              THEN IsGetCheck(xlog[k + 1], e.dsp_addr)
              ELSE /\ UploadRunning
                   /\ snd.cmd_id = NAU8360_DSP_CMD_GET_KCS_RSLTS
                   /\ snd.dsp_addr = e.dsp_addr
                   /\ kcs_setup.set_len = 4 /\ kcs_setup.set_kcs_offset = 0
        /\ (IsSet(e) /\ ~e.ok) =>
              IF k < Len(xlog)
              THEN IsSet(xlog[k + 1])
              ELSE pc = "done" \/ snd.cmd_id = NAU8360_DSP_CMD_SET_KCS_SETUP
        /\ IsGet(e) => (k > 1 /\ IsSet(xlog[k - 1]) /\ xlog[k - 1].ok)
        /\ (IsGet(e) /\ ~e.ok) => (k = Len(xlog) /\ pc = "done" /\ up.ret < 0)

C4_Witness ==
    /\ UploadDone /\ Len(xlog) = 4
    /\ IsSet(xlog[1]) /\ xlog[1].ok /\ IsGet(xlog[2]) /\ xlog[2].ok
    /\ IsSet(xlog[3]) /\ xlog[3].ok /\ IsGet(xlog[4]) /\ ~xlog[4].ok
    /\ up.ret < 0

\* every chunk of the upload has a SET_KCS_SETUP exchange that succeeded,
\* followed by a GET_KCS_RSLTS exchange that succeeded
AllChunksCommitted ==
    \A c \in 0..(CeilDiv(up.size, 96) - 1) :
        \E k \in 1..(Len(xlog) - 1) :
            /\ IsSet(xlog[k]) /\ xlog[k].ok
            /\ xlog[k].set_kcs_offset = up.offset + 96 * c
            /\ IsGet(xlog[k + 1]) /\ xlog[k + 1].ok

\* C5: the uploader returns 0 exactly when the remaining length has reached
\* 0 and every chunk had both its write and its check succeed; in every
\* other case it returns a negative error.
C5_UploadSuccess ==
    UploadDone =>
        /\ (up.ret = 0) <=> (up.entered /\ up.data_rem = 0 /\ AllChunksCommitted)
        /\ up.ret # 0 => up.ret < 0

C5_Witness ==
    /\ UploadDone /\ up.ret = 0 /\ up.size > 192 /\ up.data_rem = 0
    /\ \E k \in DOMAIN xlog : ~xlog[k].ok
    /\ AllChunksCommitted

\* the bytes the caller handed to send as the setup payload
SetupPayload ==
    [k \in 1..kcs_setup.set_len |->
        DataByte(kcs_setup.set_kcs_data.buf, kcs_setup.set_kcs_data.pos + k - 1)]

\* C6: the frame written for SET_KCS_SETUP with a payload of L bytes has
\* exactly ceil(L/4) payload words between the descriptor and the trailer;
\* their bytes are the payload bytes in order, followed by zeros up to the
\* end of the last word; the padding field of the trailer is 4*ceil(L/4) - L.
C6_PayloadWords ==
    (FrameWritten /\ snd.cmd_id = NAU8360_DSP_CMD_SET_KCS_SETUP) =>
        LET L == kcs_setup.set_len
            n == CeilDiv(L, 4)
        IN /\ L >= 1
           /\ Len(io.w) = 1 + 1 + n + 1
           /\ \A p \in 0..(4 * n - 1) :
                 FrameBytes(io.w)[p + 1] = IF p < L THEN SetupPayload[p + 1] ELSE 0
           /\ PadLen(io.w[Len(io.w)]) = 4 * n - L

C6_Witness ==
    /\ FrameWritten /\ snd.cmd_id = NAU8360_DSP_CMD_SET_KCS_SETUP
    /\ kcs_setup.set_len = 97
    /\ Len(io.w) = 28
    /\ PadLen(io.w[28]) = 3
    /\ io.w[27] = << SetupPayload[97], 0, 0, 0 >>

\* C7: in every frame send has written, the fragment count in the trailer
\* is the number of words written after the preamble, and so is the
\* fragment count in the preamble.
C7_FragCount ==
    FrameWritten =>
        LET n == Len(io.w) - 1 IN
        /\ ReplyLength(io.w[1]) = n
        /\ n > 0 => LenPos(io.w[Len(io.w)]) = n

C7_Witness ==
    /\ FrameWritten /\ Len(io.w) = 103
    /\ ReplyLength(io.w[1]) = 102 /\ LenPos(io.w[103]) = 102

\* the commands without a parameter
NoParamCmds == {c \in DspCommands : ~msg_param(c)}

\* C8 as stated: the one word written for a command without a parameter is
\* the preamble, with the fragment count 1.
C8_AsStated ==
    (FrameWritten /\ snd.cmd_id \in NoParamCmds) =>
        /\ Len(io.w) = 1
        /\ IsPreamble(io.w[1])
        /\ ReplyLength(io.w[1]) = 1

\* C8: for every command without a parameter send writes exactly one word,
\* the preamble, and the fragment count of that preamble is 0.
C8_NoParamFrame ==
    (FrameWritten /\ snd.cmd_id \in NoParamCmds) =>
        /\ Len(io.w) = 1
        /\ IsPreamble(io.w[1])
        /\ ReplyId(io.w[1]) = snd.cmd_id
        /\ ReplyLength(io.w[1]) = 0

C8_Witness ==
    /\ pc = "send_ret" /\ snd.ret = 0
    /\ snd.cmd_id = NAU8360_DSP_CMD_CLK_STOP
    /\ io.w = << <<161, 178, 44, 0>> >>

\* C9: once GET_COUNTER has been answered with a reply preamble of id 0
\* and fragment count 2, send makes no more than 2 further reads; it has
\* made exactly 2 (the payload word and the trailer) when it returns and
\* no read failed; and when it returns 0 the caller's buffer holds the 4
\* bytes of the 32-bit integer whose little-endian bytes are the payload
\* word.
C9_GetCounterReply ==
    (/\ snd.cmd_id = NAU8360_DSP_CMD_GET_COUNTER
     /\ Len(io.r) >= 1
     /\ io.r[1] = << 161, 178, 2, 0 >>) =>
        /\ io.nrd <= 2
        /\ (pc = "send_ret" /\ Len(io.r) = 1 + io.nrd) => io.nrd = 2
        /\ (pc = "send_ret" /\ snd.ret = 0) =>
              /\ io.nrd = 2 /\ Len(io.r) = 3
              /\ Len(mem) = 4
              /\ mem[1] + 256 * mem[2] = io.r[2][1] + 256 * io.r[2][2]
              /\ mem[3] + 256 * mem[4] = io.r[2][3] + 256 * io.r[2][4]

C9_Witness ==
    /\ pc = "send_ret" /\ snd.ret = 0
    /\ snd.cmd_id = NAU8360_DSP_CMD_GET_COUNTER
    /\ io.r = << <<161, 178, 2, 0>>, <<1, 2, 3, 244>>, <<2, 0, 0, 0>> >>
    /\ io.nrd = 2
    /\ mem = <<1, 2, 3, 244>>

\* The message frame w read back by the wire format: the opcode and the
\* fragment count of the preamble, the offset and size of the descriptor,
\* the padding length of the trailer, and the payload, which is the bytes
\* of the payload words less the padding.
DecodeFrame(w) ==
    [preamble |-> << w[1][1], w[1][2] >>,
     opcode |-> w[1][3] \div 4,
     fragCount |-> (w[1][3] % 4) + 4 * w[1][4],
     hasParameter |-> Len(w) > 1,
     offset |-> IF Len(w) > 1 THEN w[2][1] + 256 * w[2][2] ELSE 0,
     size |-> IF Len(w) > 1 THEN w[2][3] + 256 * w[2][4] ELSE 0,
     padLen |-> IF Len(w) > 1 THEN (w[Len(w)][2] \div 16) % 4 ELSE 0,
     payload |-> IF Len(w) > 3
                 THEN SubSeq(FrameBytes(w), 1,
                             4 * (Len(w) - 3) - ((w[Len(w)][2] \div 16) % 4))
                 ELSE << >>]

\* C10: reading the written frame back by the wire format gives the
\* opcode, the offset and size, the payload bytes and the padding length
\* that send was called with.
C10_RoundTrip ==
    FrameWritten =>
        LET d == DecodeFrame(io.w) IN
        /\ d.preamble = << 161, 178 >>
        /\ d.opcode = snd.cmd_id
        /\ d.hasParameter = msg_param(snd.cmd_id)
        /\ msg_param(snd.cmd_id) =>
              /\ d.offset = kcs_setup.set_kcs_offset
              /\ d.size = kcs_setup.set_len
        /\ IF setup_data(snd.cmd_id)
           THEN /\ d.payload = SetupPayload
                /\ d.padLen = (4 - (kcs_setup.set_len % 4)) % 4
           ELSE /\ d.payload = << >>
                /\ d.padLen = 0

C10_Witness ==
    /\ FrameWritten /\ snd.cmd_id = NAU8360_DSP_CMD_SET_KCS_SETUP
    /\ kcs_setup.set_len = 5 /\ kcs_setup.set_kcs_offset = 785
    /\ DecodeFrame(io.w).payload = SetupPayload
    /\ DecodeFrame(io.w).padLen = 3
    /\ DecodeFrame(io.w).offset = 785 /\ DecodeFrame(io.w).size = 5

\* the exchange is over
ExchangeOver == pc \in {"send_ret", "done"}

\* the reply preambles an exchange takes before the payload: two when the
\* NAU83G60 driver waits for the reply of a command without reply data
NumPreambles == IF chip = "G60" /\ ~reply_data(chip, snd.cmd_id) THEN 2 ELSE 1

\* the exchange is over and its last read returned the reply trailer
TrailerRead ==
    /\ ExchangeOver
    /\ io.nrd >= 1
    /\ Len(io.r) = NumPreambles + io.nrd

ReplyTrailer == io.r[Len(io.r)]
ReplyPreamble == io.r[NumPreambles]

\* C11: when the reply trailer has been read after a reply preamble of id
\* 0 and its fragment count differs from the count of the preamble, or
\* its padding field differs from the padding the decoder expects, send
\* returns -EPROTO, which is the return value of no reply id 1..63 and
\* not the return value of a timeout.
C11_TrailerMismatch ==
    TrailerRead =>
        /\ ReplyId(ReplyPreamble) = NAU8360_DSP_REPLY_OK
        /\ (\/ LenPos(ReplyTrailer) # ReplyLength(ReplyPreamble)
            \/ PadLen(ReplyTrailer) # PadLenExp) =>
              /\ snd.ret = -EPROTO
              /\ \A r \in 1..63 : snd.ret # ReplyError(r)
              /\ snd.ret # -EIO

C11_Witness ==
    /\ TrailerRead /\ op = "send"
    /\ snd.cmd_id = NAU8360_DSP_CMD_GET_KCS_SETUP
    /\ LenPos(ReplyTrailer) = ReplyLength(ReplyPreamble)
    /\ PadLen(ReplyTrailer) = 0 /\ PadLenExp = 3
    /\ snd.ret = -71

\* the commands with an opaque reply, and the byte count requested
OpaqueReply ==
    snd.cmd_id \in {NAU8360_DSP_CMD_GET_KCS_SETUP, NAU8360_DSP_CMD_GET_KCS_RSLTS}
FixedReply == ~msg_param(snd.cmd_id)
PadOfRequest == 4 * CeilDiv(kcs_setup.get_len, 4) - kcs_setup.get_len

\* C12 as stated: the trailer of an opaque reply of R requested bytes is
\* taken exactly when its padding is 4*ceil(R/4) - R, whatever the
\* fragment count of the preamble.
C12_AsStated ==
    (TrailerRead /\ LenPos(ReplyTrailer) = ReplyLength(ReplyPreamble)) =>
        /\ OpaqueReply =>
              /\ PadLen(ReplyTrailer) = PadOfRequest => snd.ret = 0
              /\ PadLen(ReplyTrailer) # PadOfRequest => snd.ret = -EPROTO
        /\ FixedReply =>
              /\ PadLen(ReplyTrailer) = 0 => snd.ret = 0
              /\ PadLen(ReplyTrailer) # 0 => snd.ret = -EPROTO

\* C12: the trailer of an opaque reply of R requested bytes whose preamble
\* declares ceil(R/4) payload words (the fragment count ceil(R/4) + 1) is
\* taken exactly when its padding is 4*ceil(R/4) - R; the trailer of a
\* fixed-width reply exactly when its padding is 0; with any other padding
\* send returns -EPROTO.
C12_ExpectedPadding ==
    (TrailerRead /\ LenPos(ReplyTrailer) = ReplyLength(ReplyPreamble)) =>
        /\ (OpaqueReply
            /\ ReplyLength(ReplyPreamble) = CeilDiv(kcs_setup.get_len, 4) + 1) =>
              /\ PadLen(ReplyTrailer) = PadOfRequest => snd.ret = 0
              /\ PadLen(ReplyTrailer) # PadOfRequest => snd.ret = -EPROTO
        /\ FixedReply =>
              /\ PadLen(ReplyTrailer) = 0 => snd.ret = 0
              /\ PadLen(ReplyTrailer) # 0 => snd.ret = -EPROTO

C12_Witness ==
    /\ TrailerRead /\ op = "send"
    /\ snd.cmd_id = NAU8360_DSP_CMD_GET_KCS_SETUP
    /\ kcs_setup.get_len = 5
    /\ ReplyLength(ReplyPreamble) = 3 /\ LenPos(ReplyTrailer) = 3
    /\ PadLen(ReplyTrailer) = 3
    /\ snd.ret = 0
    /\ Len(mem) = 5

\* the last reply word taken is a preamble with the error id r
ErrorPreamble(r) ==
    /\ io.r # << >>
    /\ IsPreamble(io.r[Len(io.r)])
    /\ ReplyId(io.r[Len(io.r)]) = r

\* what send returns for the failures that are no reply status: the two
\* timeouts, a failed register read, a protocol error, invalid arguments
NonStatusErrors == {-EIO, -EREMOTEIO, -EPROTO, -EINVAL, -EFAULT, -ERANGE}

\* C13: for every reply id r in 1..5 of a reply preamble, the value send
\* returns is that of r and of no other reply id, and is none of the
\* values send returns for a timeout, a failed register read, a protocol
\* error or invalid arguments.
C13_AsStated ==
    \A r \in 1..5 :
        (ExchangeOver /\ ErrorPreamble(r)) =>
            /\ snd.ret = ReplyError(r)
            /\ \A q \in (1..5) \ {r} : snd.ret # ReplyError(q)
            /\ snd.ret \notin NonStatusErrors

\* C14: a reply preamble with a non-zero reply id is the last word send
\* reads: send has returned a failure, no payload word and no trailer was
\* read, and nothing was stored in the caller's reply buffer.
C14_ErrorReplyStops ==
    \A k \in DOMAIN io.r :
        (IsPreamble(io.r[k]) /\ ReplyId(io.r[k]) # 0) =>
            /\ k = Len(io.r)
            /\ ExchangeOver
            /\ snd.ret < 0
            /\ io.nrd = 0
            /\ mem = << >>

C14_Witness ==
    /\ pc = "send_ret" /\ op = "send"
    /\ snd.cmd_id = NAU8360_DSP_CMD_GET_REVISION
    /\ io.r = << <<161, 178, 14, 0>> >>
    /\ snd.ret = -3
    /\ io.nrd = 0 /\ mem = << >>

\* the return values of the checks send makes of its arguments
InvalidErrors == {-EINVAL, -EFAULT, -ERANGE}

\* send has returned from the checks of its arguments: the mailbox was
\* neither read nor written
SendRejected ==
    /\ pc = "send_ret"
    /\ snd.ret \in InvalidErrors
    /\ io = Io0
    /\ mem = << >>

\* C15: send with an opcode that is none of 0x1, 0x4, 0x6, 0x7, 0x9, 0xa,
\* 0xb, 0xc returns -EINVAL and neither reads nor writes the mailbox.
C15_UnknownOpcode ==
    (op = "send" /\ snd.cmd_id \notin {1, 4, 6, 7, 9, 10, 11, 12}) =>
        (SendRejected /\ snd.ret = -EINVAL)

C15_Witness ==
    /\ op = "send" /\ snd.cmd_id = 2
    /\ pc = "send_ret" /\ snd.ret = -22 /\ io = Io0

\* the arguments of the running send lack what the table entry of the
\* command asks for
StructureViolated ==
    /\ snd.cmd_id \in DspCommands
    /\ \/ (msg_param(snd.cmd_id) /\ kcs_setup.set_len = 0)
       \/ (setup_data(snd.cmd_id) /\ kcs_setup.set_kcs_data.buf = NULL)
       \/ (reply_data(chip, snd.cmd_id) /\ kcs_setup.get_data = NULL)

\* C16: send of a command whose table entry has msg_param with set_len 0,
\* or setup_data with no payload buffer, or reply_data with no reply
\* buffer returns the error of the argument checks (-EFAULT in the
\* NAU83G60 driver, -EINVAL in the NAU83G10 driver) and neither reads nor
\* writes the mailbox.
C16_StructureCheck ==
    (op = "send" /\ StructureViolated) =>
        /\ SendRejected
        /\ snd.ret = IF chip = "G60" THEN -EFAULT ELSE -EINVAL

C16_Witness ==
    /\ op = "send" /\ chip = "G60"
    /\ snd.cmd_id = NAU8360_DSP_CMD_GET_COUNTER
    /\ kcs_setup.get_data = NULL
    /\ pc = "send_ret" /\ snd.ret = -14 /\ io = Io0

\* the size or the offset of the running send is beyond the transport caps
BeyondCaps == kcs_setup.set_len > 1024 \/ kcs_setup.set_kcs_offset > 3072

\* C17 as stated: send of any command with a parameter is rejected when
\* the size is above 1024 or the offset above 3072.
C17_AsStated ==
    (op = "send" /\ snd.cmd_id \in DspCommands /\ msg_param(snd.cmd_id)
     /\ BeyondCaps) => SendRejected

\* C17: send of GET_KCS_SETUP with a size above 1024 or an offset above
\* 3072 returns an error of the argument checks and neither reads nor
\* writes the mailbox.
C17_RangeCheck ==
    (op = "send" /\ snd.cmd_id = NAU8360_DSP_CMD_GET_KCS_SETUP /\ BeyondCaps) =>
        /\ SendRejected
        /\ ~StructureViolated =>
              snd.ret = IF chip = "G60" THEN -ERANGE ELSE -EINVAL

C17_Witness ==
    /\ op = "send" /\ chip = "G60"
    /\ snd.cmd_id = NAU8360_DSP_CMD_GET_KCS_SETUP
    /\ kcs_setup.set_len = 4 /\ kcs_setup.set_kcs_offset = 3073
    /\ kcs_setup.get_data # NULL
    /\ pc = "send_ret" /\ snd.ret = -34 /\ io = Io0

\* a send of GET_KCS_SETUP that has all its buffers
GetKcsSetupSend ==
    /\ op = "send"
    /\ snd.cmd_id = NAU8360_DSP_CMD_GET_KCS_SETUP
    /\ kcs_setup.get_data # NULL

\* the upload was turned down by the check of its arguments
UploadRejected ==
    /\ pc = "done"
    /\ up.ret = -EINVAL
    /\ ~up.entered
    /\ xlog = << >>
    /\ io = Io0

\* size 1025 or offset 3073 is turned down by send of GET_KCS_SETUP and by
\* the uploader
BeyondRejected ==
    /\ (GetKcsSetupSend
        /\ (kcs_setup.set_len = 1025 \/ kcs_setup.set_kcs_offset = 3073)) =>
          SendRejected
    /\ (op = "upload" /\ up.data # NULL
        /\ (up.size = 1025 \/ up.offset = 3073)) => UploadRejected

\* C18 as stated: size 1024 with offset 3072 is taken by send of
\* GET_KCS_SETUP and by the uploader in both drivers; size 1025 or offset
\* 3073 is turned down before any I/O.
C18_AsStated ==
    /\ (GetKcsSetupSend
        /\ kcs_setup.set_len = 1024 /\ kcs_setup.set_kcs_offset = 3072) =>
          ~SendRejected
    /\ (op = "upload" /\ up.data # NULL
        /\ up.size = 1024 /\ up.offset = 3072) => up.entered
    /\ BeyondRejected

\* C18: size 1024 with offset 3072 is taken by send of GET_KCS_SETUP and by
\* the uploader in the NAU83G60 driver; the NAU83G10 driver takes size 1023
\* with offset 3072 and turns size 1024 down; size 1025 or offset 3073 is
\* turned down before any I/O in both.
C18_Boundaries ==
    /\ (GetKcsSetupSend /\ kcs_setup.set_kcs_offset = 3072) =>
          /\ kcs_setup.set_len = 1023 => ~SendRejected
          /\ kcs_setup.set_len = 1024 =>
                IF chip = "G60" THEN ~SendRejected ELSE SendRejected
    /\ (op = "upload" /\ up.data # NULL /\ up.offset = 3072) =>
          /\ up.size = 1023 => up.entered
          /\ up.size = 1024 =>
                IF chip = "G60" THEN up.entered ELSE UploadRejected
    /\ BeyondRejected

C18_Witness ==
    /\ chip = "G60" /\ op = "upload"
    /\ up.size = 1024 /\ up.offset = 3072 /\ up.entered
    /\ xlog = << >>
    /\ FrameWritten
    /\ DescOffset(io.w) = 3072 /\ DescSize(io.w) = 96

\* C19 as stated: send of SET_KCS_SETUP with more than 96 payload bytes is
\* turned down before any mailbox access, and no SET_KCS_SETUP frame on
\* the mailbox has more than 96 payload bytes.
C19_AsStated ==
    /\ (op = "send" /\ snd.cmd_id = NAU8360_DSP_CMD_SET_KCS_SETUP
        /\ kcs_setup.set_len > 96) => SendRejected
    /\ (FrameWritten /\ snd.cmd_id = NAU8360_DSP_CMD_SET_KCS_SETUP) =>
          DescSize(io.w) <= 96

\* C19: the uploader hands send no more than 96 payload bytes, and every
\* SET_KCS_SETUP frame it puts on the mailbox has a size of at most 96 and
\* at most 24 payload words.
C19_ChunkCap ==
    (op = "upload" /\ snd.cmd_id = NAU8360_DSP_CMD_SET_KCS_SETUP) =>
        /\ kcs_setup.set_len <= 96
        /\ FrameWritten =>
              /\ DescSize(io.w) <= 96
              /\ Len(io.w) - 3 <= 24

C19_Witness ==
    /\ op = "upload" /\ up.size > 96 /\ up.data_rem > 96
    /\ snd.cmd_id = NAU8360_DSP_CMD_SET_KCS_SETUP
    /\ pc = "send_ret" /\ snd.ret = 0
    /\ DescSize(io.w) = 96 /\ Len(io.w) = 27

\* C20: the uploader called with a size above 1024, an offset above 3072
\* or no data buffer returns -EINVAL; the mailbox is neither read nor
\* written and no chunk is sent.
C20_UploadArgs ==
    (op = "upload" /\ (up.size > 1024 \/ up.offset > 3072 \/ up.data = NULL)) =>
        UploadRejected

C20_Witness ==
    /\ op = "upload" /\ up.data # NULL /\ up.size = 1 /\ up.offset = 3073
    /\ pc = "done" /\ up.ret = -22 /\ io = Io0 /\ xlog = << >>

\* the upload has a buffer and a start offset within the range
UploadWellFormed ==
    /\ op = "upload"
    /\ up.data # NULL
    /\ up.offset <= NAU8360_DSP_KCS_OFFSET_MAX

\* the upload is over and none of its exchanges failed
UploadAllOk == UploadDone /\ \A k \in DOMAIN xlog : xlog[k].ok

\* C21 as stated: an upload of a buffer of any length L, with all exchanges
\* succeeding, has sent ceil(L/96) chunks and returns 0.
C21_AsStated ==
    (UploadWellFormed /\ UploadAllOk) =>
        /\ up.ret = 0
        /\ Len(SetLog) = CeilDiv(up.size, 96)

\* C21: an upload of a buffer of L bytes, L at most 1024 (1023 in the
\* NAU83G10 driver), with all exchanges succeeding has sent ceil(L/96)
\* chunks, the last one ending at byte L, and returns 0; an upload of a
\* longer buffer returns -EINVAL and sends nothing.
C21_UploadLength ==
    UploadWellFormed =>
        /\ up.size > KCS_DAT_LEN_MAX(chip) => UploadRejected
        /\ (up.size <= KCS_DAT_LEN_MAX(chip) /\ UploadAllOk) =>
              /\ up.entered
              /\ up.ret = 0
              /\ Len(SetLog) = CeilDiv(up.size, 96)
              /\ up.addr_offset = up.offset + up.size

C21_Witness ==
    /\ UploadWellFormed /\ UploadDone
    /\ up.size = 1025 /\ up.offset = 0
    /\ up.ret = -22 /\ ~up.entered
    /\ xlog = << >> /\ io = Io0

\* send has returned a failure to the SET_KCS_SETUP call site of the upload
ChunkWriteFailed ==
    /\ pc = "send_ret"
    /\ op = "upload"
    /\ up.cmd_id = NAU8360_DSP_CMD_SET_KCS_SETUP
    /\ snd.ret < 0

\* the step sends the same chunk again
ChunkResent ==
    /\ pc' = "dsp_idle"
    /\ snd'.cmd_id = NAU8360_DSP_CMD_SET_KCS_SETUP
    /\ kcs_setup' = kcs_setup
    /\ up'.retries = up.retries + 1
    /\ up'.data_rem = up.data_rem /\ up'.addr_offset = up.addr_offset

\* the step ends the upload with the error of the chunk write
UploadAborted == pc' = "done" /\ up'.ret = snd.ret

\* C22 as stated: a chunk write that failed with -EPROTO or with an error
\* of the argument checks is not sent again: the upload ends at once.
C22_AsStated ==
    [][(ChunkWriteFailed /\ snd.ret \in {-EPROTO} \cup InvalidErrors)
          => UploadAborted]_vars

\* C22: a chunk write that failed, with whatever error (-EPROTO included),
\* is sent again when fewer than 3 failures came before it in the upload;
\* else the upload ends with that error.
C22_RetryAnyFailure ==
    [][ChunkWriteFailed =>
          IF up.retries < 3 THEN ChunkResent ELSE UploadAborted]_vars

C22_Witness ==
    /\ ChunkWriteFailed /\ snd.ret = -71
    /\ up.retries = 1
    /\ Len(xlog) = 1 /\ IsSet(xlog[1]) /\ ~xlog[1].ok
    /\ xlog[1].set_kcs_offset = kcs_setup.set_kcs_offset
    /\ io.nrd >= 1

\* C23: once a write of a word of the frame has returned an error, send
\* has returned that error: the failed word is the last one written and
\* no word of the reply has been read.
C23_AsStated ==
    io.wfail # 0 =>
        /\ pc = "send_ret"
        /\ snd.ret = -EREMOTEIO
        /\ Len(io.w) = io.wfail
        /\ io.npoll = 0 /\ io.nrd = 0 /\ io.r = << >>

\* a state the code reaches after a failed write: send has returned 0
C23_WriteErrorLost ==
    /\ pc = "send_ret" /\ snd.ret = 0
    /\ snd.cmd_id = NAU8360_DSP_CMD_SET_KCS_SETUP
    /\ io.wfail = 1 /\ Len(io.w) = 5
    /\ io.nrd >= 1

\* no read of the reply has been made in the exchange
ReplyUnread == io.npoll = 0 /\ io.nrd = 0 /\ io.r = << >>

\* the thread is about to write a word of the frame
Writing == pc \in {"wr_preamble", "wr_descriptor", "wr_payload", "wr_trailer"}

\* send has returned from nau8360_massage_to_dsp with an error
EncoderFailed == pc = "send_ret" /\ io.nidle > 0 /\ ~io.idle

\* send has returned from nau8360_reply_from_dsp with an error
DecoderFailed == pc = "send_ret" /\ snd.ret # 0 /\ io.w # << >>

\* the reply the decoder took is whole: an Ok preamble of fragment count
\* 0, or an Ok preamble and after it the words up to the trailer
ReplyWhole ==
    /\ io.r # << >>
    /\ \A k \in 1..Min(Len(io.r), NumPreambles) :
          IsPreamble(io.r[k]) /\ ReplyId(io.r[k]) = NAU8360_DSP_REPLY_OK
    /\ \/ /\ Len(io.r) <= NumPreambles
          /\ ReplyLength(io.r[Len(io.r)]) = 0
          /\ io.nrd = 0
       \/ /\ Len(io.r) = NumPreambles + io.nrd
          /\ io.nrd >= 1
          /\ LenPos(ReplyTrailer) = ReplyLength(ReplyPreamble)

\* C24: in an exchange no word is written before the idle word was read
\* and no idle read follows a write; no word of the reply is read before
\* the frame is written to its end and no write follows a read of the
\* reply; when the encoder failed the reply was not read; send returns 0
\* only when the frame was written after the idle word was read and a whole
\* Ok reply was taken; else it returns the error of the stage that failed:
\* the error of the idle poll for the encoder, and for the decoder the
\* error of its read, of its poll, of the reply id or of the trailer.
C24_StageOrder ==
    /\ pc = "dsp_idle" => (io.w = << >> /\ ReplyUnread)
    /\ io.w # << >> => (io.idle /\ io.nidle = 0)
    /\ Writing => ReplyUnread
    /\ ~ReplyUnread => (~Writing /\ Len(io.w) = 1 + snd.frag_len)
    /\ EncoderFailed =>
          /\ io.w = << >> /\ ReplyUnread
          /\ snd.ret \in {-EIO, -EREMOTEIO}
          /\ io.nidle < NAU8360_DSP_IDLE_RETRY => snd.ret = -EREMOTEIO
    /\ (pc = "send_ret" /\ snd.ret = 0) =>
          /\ io.idle /\ Len(io.w) = 1 + snd.frag_len
          /\ ReplyWhole
    /\ DecoderFailed =>
          /\ Len(io.w) = 1 + snd.frag_len
          /\ snd.ret \in {-EIO, -EREMOTEIO, -EPROTO, -EINVAL}
                          \cup {ReplyError(r) : r \in ReplyIds}
          /\ \A r \in ReplyIds \ {NAU8360_DSP_REPLY_OK} :
                ErrorPreamble(r) => snd.ret = ReplyError(r)
          /\ snd.ret = -EINVAL => (kcs_setup.get_data = NULL /\ io.nrd = 0)

C24_Witness ==
    /\ pc = "send_ret" /\ op = "send"
    /\ snd.cmd_id = NAU8360_DSP_CMD_SET_KCS_SETUP
    /\ snd.ret = -121
    /\ io.idle /\ Len(io.w) = 5 /\ Len(io.r) = 2 /\ io.nrd = 2

SessionA == NAU8360_RF000_DSP_COMM
SessionB == NAU8360_RF002_DSP_COMM

\* C25: a broadcast sends on the mailbox 0xF000 first and touches the
\* mailbox 0xF002 only after the exchange on 0xF000 has returned 0; when
\* the exchange on 0xF000 fails the broadcast is over with that error and
\* the mailbox 0xF002 was not accessed; it returns 0 only after both
\* exchanges returned 0, the one on 0xF000 before the one on 0xF002.
C25_BroadcastOrder ==
    op = "broadcast" =>
        /\ io.addrs \subseteq {snd.dsp_addr}
        /\ xlog = << >> => (snd.dsp_addr = SessionA /\ bc.i = 0 /\ pc # "done")
        /\ snd.dsp_addr = SessionB =>
              /\ Len(xlog) >= 1
              /\ xlog[1].dsp_addr = SessionA /\ xlog[1].ok
              /\ xlog[1].cmd_id = snd.cmd_id
        /\ (xlog # << >> /\ ~xlog[1].ok) =>
              /\ pc = "done" /\ Len(xlog) = 1
              /\ bc.ret = snd.ret /\ bc.ret < 0
              /\ snd.dsp_addr = SessionA
              /\ io.addrs \subseteq {SessionA}
        /\ (pc = "done" /\ bc.ret = 0) =>
              /\ Len(xlog) = 2
              /\ xlog[1].ok /\ xlog[1].dsp_addr = SessionA
              /\ xlog[2].ok /\ xlog[2].dsp_addr = SessionB
        /\ Len(xlog) <= 2

C25_Witness ==
    /\ op = "broadcast" /\ pc = "done"
    /\ snd.cmd_id = NAU8360_DSP_CMD_CLK_RESTART
    /\ Len(xlog) = 1 /\ ~xlog[1].ok /\ xlog[1].dsp_addr = 61440
    /\ bc.ret = -5 /\ io.npoll = 10
    /\ io.addrs = {61440}

-----------------------------------------------------------------------------
\* an exchange of the thread with context c is in flight: it made an access
\* to the mailbox and its next step is another one
InFlight(c) ==
    /\ c.pc \notin {"ready", "send_ret", "done"}
    /\ c.io.addrs # {}

\* C26: at most one exchange is in flight per session; while the exchange
\* of one caller of send is between its first and its last mailbox access, no
\* other caller has an exchange in flight on the same mailbox
C26_AsStated ==
    (InFlight(Ctx) /\ InFlight(other)) => snd.dsp_addr # other.snd.dsp_addr

\* the put of a mixer control has written its frame and reads the reply
\* while the exchange of the DSP clock event, on the same mailbox, has
\* written its frame and polls for its reply
C26_Interleaved ==
    /\ cur = 1 /\ op = "send" /\ pc = "rd_payload"
    /\ other.op = "broadcast" /\ other.pc = "dsp_replied"
    /\ snd.dsp_addr = other.snd.dsp_addr
    /\ io.w # << >> /\ other.io.w # << >>
    /\ other.io.npoll > 0

-----------------------------------------------------------------------------
\* the thread with context c accessed no other mailbox than the one its call
\* names: the dsp_addr of send, and for an upload the dsp_addr of the upload
\* in every exchange it made
Confined(c) ==
    /\ c.io.addrs \subseteq {c.snd.dsp_addr}
    /\ (c.op = "upload" /\ c.up.entered) =>
          /\ c.snd.dsp_addr = c.up.dsp_addr
          /\ \A i \in 1..Len(c.xlog) : c.xlog[i].dsp_addr = c.up.dsp_addr

\* a step of the running thread leaves the state of the other thread as it
\* is, and a switch hands the two states over unchanged
ThreadFrame ==
    /\ cur' = cur => other' = other
    /\ cur' # cur => (other' = Ctx /\ Ctx' = other)

\* C27: a send or an upload accesses only the mailbox of its own session,
\* and no step of an exchange changes anything the exchange of the other
\* thread reads, so that the two run as if alone however they interleave
C27_SessionFrame ==
    /\ [](Confined(Ctx) /\ Confined(other))
    /\ [][ThreadFrame]_vars

\* the put of a mixer control on the first core has returned 0 while the
\* upload on the second core has made its SET and is in its GET
C27_Witness ==
    /\ cur = 2 /\ op = "upload" /\ up.dsp_addr = NAU8360_RF002_DSP_COMM
    /\ Len(xlog) = 1 /\ xlog[1].ok /\ io.addrs = {NAU8360_RF002_DSP_COMM}
    /\ pc = "dsp_replied"
    /\ other.op = "send" /\ other.pc = "send_ret" /\ other.snd.ret = 0
    /\ other.io.addrs = {NAU8360_RF000_DSP_COMM}

-----------------------------------------------------------------------------
\* a call was made
Started == pc # "ready"

\* the call has returned: send to its caller, the upload or the broadcast
\* with its result
Returned ==
    \/ op = "send" /\ pc = "send_ret"
    \/ pc = "done"

\* the accesses of one exchange and the exchanges of one upload are bounded:
\* NAU8360_DSP_IDLE_RETRY reads of each poll, and two exchanges a chunk plus
\* those that were sent again
AccessesBounded ==
    /\ io.nidle <= NAU8360_DSP_IDLE_RETRY
    /\ io.npoll <= NAU8360_DSP_IDLE_RETRY
    /\ up.retries <= NAU8360_DSP_RETRY_MAX + 1
    /\ op = "upload" =>
          Len(xlog) <= 2 * ((up.size + NAU8360_DSP_KCS_TX_MAX - 1)
                              \div NAU8360_DSP_KCS_TX_MAX)
                       + NAU8360_DSP_RETRY_MAX + 1

\* C28: whatever the DSP and the register device answer, a call of send and
\* an upload return, with success or a failure, after a bounded number of
\* mailbox accesses
C28_Terminates ==
    /\ Started ~> Returned
    /\ []AccessesBounded

\* an upload of two chunks has returned a failure after the mailbox was
\* never idle for the fourth time
C28_Witness ==
    /\ op = "upload" /\ pc = "done" /\ up.ret = -EIO
    /\ up.size > NAU8360_DSP_KCS_TX_MAX
    /\ up.retries = NAU8360_DSP_RETRY_MAX + 1
    /\ io.nidle = NAU8360_DSP_IDLE_RETRY /\ ~io.idle
    /\ Len(xlog) >= 4

-----------------------------------------------------------------------------
\* what the claim expects of the read of nau8360_dsp_idle that returned
\* res, the n-th read of the poll
IdleOutcome(res, n) ==
    IF res.ret # 0
    THEN pc' = "send_ret" /\ snd'.ret = res.ret
    ELSE IF res.val = NAU8360_DSP_COMM_IDLE_WORD
    THEN pc' = "wr_preamble" /\ snd'.ret = 0
    ELSE IF n = NAU8360_DSP_IDLE_RETRY
    THEN pc' = "send_ret" /\ snd'.ret = -EIO
    ELSE pc' = "dsp_idle"

IdleReadStep ==
    \A res \in ReadResults(IdleWords) :
       DspIdleRead(res) =>
          /\ io'.nidle = io.nidle + 1
          /\ IdleOutcome(res, io.nidle + 1)

\* C29: the poll for the idle word reads the mailbox at most 10 times; it
\* goes on to the frame exactly when a read, the 10th included, returned the
\* idle word, and reads no more then; it returns -EIO when the 10th read
\* returned another word too; a failed read ends it with the error of the
\* read
C29_AwaitIdle ==
    /\ [](/\ io.nidle <= NAU8360_DSP_IDLE_RETRY
          /\ pc = "wr_preamble" => (io.idle /\ io.nidle >= 1)
          /\ (pc = "dsp_idle" /\ io.nidle > 0) => ~io.idle)
    /\ [][IdleReadStep]_vars

\* the 10th read returned the idle word and the frame is written next
C29_Witness ==
    /\ pc = "wr_preamble" /\ io.idle
    /\ io.nidle = NAU8360_DSP_IDLE_RETRY
    /\ io.w = << >> /\ snd.ret = 0

-----------------------------------------------------------------------------
\* the two low bytes of the word are 0xA1, 0xB2
LowBytesMatch(w) == w[1] = 161 /\ w[2] = 178

\* what the claim expects of the read of one poll of nau8360_dsp_replied
\* that returned res, the n-th read of the poll: a failed read ends the poll
\* with its error, a word that does not match is dropped and the 10th of
\* them ends the poll with -EIO, a word that matches ends the poll and is
\* taken as the reply preamble
PollOutcome(res, n) ==
    IF res.ret # 0
    THEN pc' = "send_ret" /\ snd'.ret = res.ret /\ io'.r = io.r
    ELSE IF ~LowBytesMatch(res.val)
    THEN /\ io'.r = io.r
         /\ io'.npoll = n
         /\ IF n = NAU8360_DSP_IDLE_RETRY
            THEN pc' = "send_ret" /\ snd'.ret = -EIO
            ELSE pc' = pc
    ELSE /\ io'.r = Append(io.r, res.val)
         /\ pc' # pc

PollReadStep ==
    \A res \in ReadResults(PreambleWords) :
       DspReplied(res) =>
          /\ PollOutcome(res, io.npoll + 1)
          /\ io'.nrd = io.nrd

\* the poll of the reply has read 10 words of which none matched
PollTimedOut ==
    /\ pc = "send_ret" /\ snd.ret = -EIO
    /\ io.npoll = NAU8360_DSP_IDLE_RETRY
    /\ \A i \in 1..Len(io.r) : ReplyId(io.r[i]) = NAU8360_DSP_REPLY_OK

\* C30: one poll for the reply preamble reads the mailbox at most 10 times;
\* a word whose two low bytes are not 0xA1, 0xB2 is dropped; after 10 such
\* words the poll returns -EIO and no payload or trailer word is read; a
\* failed read ends the poll at once with the error of the read
C30_ReplyPoll ==
    /\ [](/\ io.npoll <= NAU8360_DSP_IDLE_RETRY
          /\ PollTimedOut => io.nrd = 0
          /\ pc \in {"rd_payload", "rd_trailer"} =>
                (io.r # << >> /\ \A i \in 1..Len(io.r) - io.nrd :
                                    LowBytesMatch(io.r[i])))
    /\ [][PollReadStep]_vars

\* nine words that did not match were dropped, the 10th did not match
\* either: -EIO, and nothing of a reply was read
C30_Witness ==
    /\ PollTimedOut /\ op = "send"
    /\ io.r = << >> /\ io.nrd = 0
    /\ io.w # << >> /\ io.idle

-----------------------------------------------------------------------------
\* the fragment count F of the Ok preamble the decoder went on from
DeclaredFrags == ReplyLength(ReplyPreamble)

\* an Ok preamble with the fragment count 0 ended the exchange
EmptyReply ==
    /\ ExchangeOver /\ io.r # << >> /\ io.nrd = 0
    /\ Len(io.r) <= NumPreambles
    /\ ReplyId(io.r[Len(io.r)]) = NAU8360_DSP_REPLY_OK
    /\ ReplyLength(io.r[Len(io.r)]) = 0

\* payload words the decoder reads of a reply that declares F fragments: all
\* F - 1 of a fixed-width reply; of a reply to a command with a parameter
\* the loop is left with the first word that is not copied whole
PayloadReads ==
    IF msg_param(snd.cmd_id) /\ kcs_setup.get_len \div 4 + 1 < DeclaredFrags - 1
    THEN kcs_setup.get_len \div 4 + 1
    ELSE DeclaredFrags - 1

\* C31 as stated: after an Ok preamble that declares F fragments the
\* decoder reads exactly F words more, whatever the requested byte count.
C31_AsStated ==
    /\ TrailerRead => io.nrd = DeclaredFrags
    /\ EmptyReply => (snd.ret = 0 /\ mem = << >>)

\* C31: after an Ok preamble that declares F fragments the decoder reads
\* F - 1 payload words and the trailer when the reply is fixed-width or the
\* requested byte count covers the payload; when the F - 1 payload words are
\* more than floor(get_len / 4) + 1 it reads floor(get_len / 4) + 1 of them
\* and takes the next word for the trailer; with F = 0 it reads nothing and
\* returns 0 without data; it never reads more than F words.
C31_DecoderReads ==
    /\ TrailerRead => io.nrd = PayloadReads + 1
    /\ EmptyReply => (snd.ret = 0 /\ mem = << >>)
    /\ pc \in {"rd_payload", "rd_trailer"} => io.nrd < DeclaredFrags

\* GET_KCS_SETUP of one byte, the reply declares two payload words: one is
\* read, and the second word is taken for the trailer
C31_Witness ==
    /\ TrailerRead /\ op = "send"
    /\ snd.cmd_id = NAU8360_DSP_CMD_GET_KCS_SETUP
    /\ kcs_setup.get_len = 1 /\ DeclaredFrags = 3
    /\ io.nrd = 2

-----------------------------------------------------------------------------
\* send has returned without a failure
SendSucceeded == ExchangeOver /\ io.w # << >> /\ ~(snd.ret < 0)

\* C32 as stated: on success send returns the number of bytes written to
\* the reply buffer of the caller.
C32_AsStated == SendSucceeded => snd.ret = Len(mem)

\* C32: on success the decoder, and send through it, returns 0, whatever
\* the number of bytes written to the reply buffer of the caller (4 for a
\* fixed-width reply of one word); no return value is positive.
C32_SuccessIsZero ==
    /\ snd.ret <= 0 /\ up.ret <= 0 /\ bc.ret <= 0
    /\ SendSucceeded => snd.ret = 0
    /\ (SendSucceeded /\ FixedReply /\ TrailerRead /\ DeclaredFrags = 2) =>
          Len(mem) = NAU8360_DSP_DATA_BYTE

\* the put of "DSP get counter command" returned 0 with the four bytes of
\* the counter in the buffer
C32_Witness ==
    /\ SendSucceeded /\ op = "send"
    /\ snd.cmd_id = NAU8360_DSP_CMD_GET_COUNTER
    /\ Len(mem) = 4 /\ snd.ret = 0 /\ io.nrd = 2

-----------------------------------------------------------------------------
\* C33: the fields of the decoder mirror those of the encoder: the preamble
\* bytes the encoder builds of a fragment count c in 0..1023 and an id in
\* 0..63 give (c, id) back by the decoder's (b2 & 3) | (b3 << 2) and
\* b2 >> 2, and the trailer bytes it builds of c and a padding p in 0..3
\* give (c, p) back by b0 | ((b1 & 0xC0) << 2) and (b1 & 0x30) >> 4
C33_FieldsMirror ==
    /\ op = "mirror_preamble" =>
          /\ IsPreamble(io.r[1])
          /\ ReplyLength(io.r[1]) = snd.frag_len
          /\ rep.frag_len = snd.frag_len
          /\ ReplyId(io.r[1]) = snd.cmd_id
          /\ \A k \in 1..4 : io.w[1][k] \in 0..255
    /\ op = "mirror_trailer" =>
          /\ LenPos(io.r[1]) = msg.frag_cnt
          /\ PadLen(io.r[1]) = msg.padding
          /\ \A k \in 1..4 : io.w[1][k] \in 0..255

\* the largest fields: the count 1023 with the padding 3 in a trailer
C33_Witness ==
    /\ op = "mirror_trailer" /\ pc = "done"
    /\ msg.frag_cnt = 1023 /\ msg.padding = 3
    /\ io.w = << << 255, 240, 0, 0 >> >>
    /\ LenPos(io.r[1]) = 1023

-----------------------------------------------------------------------------
\* C34: the decoder stores at most get_len bytes in the buffer of the
\* caller for GET_KCS_SETUP and GET_KCS_RSLTS, whatever fragment count the
\* reply declares, and at most 4 bytes for a fixed-width reply
C34_AsStated ==
    /\ OpaqueReply => Len(mem) <= kcs_setup.get_len
    /\ FixedReply => Len(mem) <= NAU8360_DSP_DATA_BYTE

\* the uploader reads the result of a chunk into its unsigned int kcs_rst;
\* the reply declares two payload words, and the first byte of the second
\* is stored behind the four bytes of kcs_rst
C34_Overrun ==
    /\ op = "upload" /\ snd.cmd_id = NAU8360_DSP_CMD_GET_KCS_RSLTS
    /\ kcs_setup.get_len = NAU8360_DSP_DATA_BYTE
    /\ pc = "rd_trailer" /\ rep.frag_payload_len = 2
    /\ Len(mem) = NAU8360_DSP_DATA_BYTE + 1
    /\ rep.data_count = -1

-----------------------------------------------------------------------------
\* bytes of payload a reply declares with its fragment count
DeclaredBytes == NAU8360_DSP_DATA_BYTE * (DeclaredFrags - 1)

\* bytes the decoder has stored when it reads the trailer of a reply to a
\* command with a parameter: all the declared words when they fit in the
\* requested count; else the requested count, and one byte more when the
\* count is a multiple of 4
BytesCopied ==
    IF DeclaredBytes <= kcs_setup.get_len THEN DeclaredBytes
    ELSE IF kcs_setup.get_len % NAU8360_DSP_DATA_BYTE = 0
    THEN kcs_setup.get_len + 1
    ELSE kcs_setup.get_len

\* C35 as stated: send of GET_KCS_SETUP or GET_KCS_RSLTS returns success
\* only if exactly get_len bytes were stored in the buffer of the caller.
C35_AsStated ==
    (OpaqueReply /\ SendSucceeded) => Len(mem) = kcs_setup.get_len

\* C35: send of GET_KCS_SETUP or GET_KCS_RSLTS returns success exactly when
\* the trailer repeats the fragment count F of the preamble and its padding
\* is 4 * (F - 1) less the bytes stored; the bytes stored are the declared
\* 4 * (F - 1) when the reply is shorter than get_len, so that success can
\* come with fewer bytes than requested (a warning is all there is)
C35_ShortReplyTaken ==
    (OpaqueReply /\ TrailerRead) =>
        /\ Len(mem) = BytesCopied
        /\ snd.ret = 0 <=>
              /\ LenPos(ReplyTrailer) = DeclaredFrags
              /\ PadLen(ReplyTrailer) = DeclaredBytes - BytesCopied

\* 8 bytes requested, the reply has one payload word and a trailer without
\* padding: success with 4 bytes stored
C35_Witness ==
    /\ OpaqueReply /\ SendSucceeded /\ TrailerRead
    /\ kcs_setup.get_len = 8 /\ DeclaredFrags = 2
    /\ Len(mem) = 4 /\ snd.ret = 0

-----------------------------------------------------------------------------
\* SET_KCS_SETUP exchanges of the upload so far that failed, and all of them
\* (the one that runs included)
FailedSets == Cardinality({k \in DOMAIN xlog : IsSet(xlog[k]) /\ ~xlog[k].ok})
AllSets ==
    Cardinality({k \in DOMAIN xlog : IsSet(xlog[k])})
    + (IF UploadRunning /\ up.cmd_id = NAU8360_DSP_CMD_SET_KCS_SETUP
       THEN 1 ELSE 0)
\* failed SET_KCS_SETUP exchanges that were followed by another exchange
RetriedSets ==
    Cardinality({k \in DOMAIN xlog :
                    /\ IsSet(xlog[k]) /\ ~xlog[k].ok
                    /\ (k < Len(xlog) \/ UploadRunning)})

\* C36: the retries of an upload are counted over all its chunks: the
\* counter is the number of SET_KCS_SETUP exchanges that failed since the
\* call, whichever chunk they were for; at most 3 of them are followed by a
\* retry, at most 4 fail, and the upload of L bytes makes at most
\* ceil(L/96) + 3 SET_KCS_SETUP exchanges
C36_RetryBudget ==
    (op = "upload" /\ up.entered) =>
        /\ up.retries = FailedSets
        /\ RetriedSets <= NAU8360_DSP_RETRY_MAX
        /\ FailedSets <= NAU8360_DSP_RETRY_MAX + 1
        /\ AllSets <= CeilDiv(up.size, NAU8360_DSP_KCS_TX_MAX)
                      + NAU8360_DSP_RETRY_MAX

\* two chunks: the first is written at the third attempt, the second fails
\* twice, and the upload ends with the fourth failure
C36_Witness ==
    /\ UploadDone /\ up.ret < 0 /\ up.retries = NAU8360_DSP_RETRY_MAX + 1
    /\ SetFailures(up.offset) = 2
    /\ SetFailures(up.offset + NAU8360_DSP_KCS_TX_MAX) = 2
    /\ AllSets = 5

-----------------------------------------------------------------------------
\* the send of a chunk has returned to the upload, with a failure or not
ChunkReturned ==
    /\ pc = "send_ret" /\ op = "upload"
    /\ up.cmd_id = NAU8360_DSP_CMD_SET_KCS_SETUP

\* cursor, remaining length and data position of the upload
UploadCursor == << up.addr_offset, up.data_rem, up.data_buf >>

\* at each step of an upload: (cursor - o) + remaining = L, the remaining
\* length is in 0..L, the data position is cursor - o, and a chunk on its
\* way is the slice at the cursor
CursorInvariant ==
    (op = "upload" /\ up.entered) =>
        /\ (up.addr_offset - up.offset) + up.data_rem = up.size
        /\ 0 <= up.data_rem /\ up.data_rem <= up.size
        /\ up.data_buf = up.addr_offset - up.offset
        /\ (UploadRunning /\ pc # "send_ret"
               /\ up.cmd_id = NAU8360_DSP_CMD_SET_KCS_SETUP) =>
              /\ kcs_setup.set_kcs_offset = up.addr_offset
              /\ kcs_setup.set_kcs_data = [buf |-> up.data, pos |-> up.data_buf]
              /\ kcs_setup.set_len = Min(NAU8360_DSP_KCS_TX_MAX, up.data_rem)

\* a chunk that failed leaves the cursor where it is and the chunk sent
\* again is the same; the cursor moves only when a chunk was written, by the
\* length of that chunk
CursorStep ==
    /\ (ChunkReturned /\ snd.ret < 0) =>
          /\ UploadCursor' = UploadCursor
          /\ pc' # "done" =>
                /\ kcs_setup'.set_kcs_offset = kcs_setup.set_kcs_offset
                /\ kcs_setup'.set_len = kcs_setup.set_len
                /\ kcs_setup'.set_kcs_data = kcs_setup.set_kcs_data
                /\ snd'.cmd_id = NAU8360_DSP_CMD_SET_KCS_SETUP
    /\ (op = "upload" /\ op' = "upload" /\ UploadCursor' # UploadCursor) =>
          /\ ChunkReturned /\ ~(snd.ret < 0)
          /\ up'.addr_offset = up.addr_offset + kcs_setup.set_len
          /\ up'.data_rem = up.data_rem - kcs_setup.set_len

\* C37: the bookkeeping of the upload: cursor, remaining length and data
\* position stay tied to each other, a failed chunk write changes none of
\* them and is sent again as it was, and they change only after a chunk
\* write that succeeded
C37_CursorBookkeeping ==
    /\ []CursorInvariant
    /\ [][CursorStep]_vars

\* the second chunk of an upload is sent again after it failed once
C37_Witness ==
    /\ UploadRunning /\ up.cmd_id = NAU8360_DSP_CMD_SET_KCS_SETUP
    /\ pc = "wr_payload"
    /\ up.addr_offset = up.offset + NAU8360_DSP_KCS_TX_MAX
    /\ up.size = 97 /\ up.data_rem = 1 /\ up.data_buf = NAU8360_DSP_KCS_TX_MAX
    /\ Len(xlog) = 3 /\ ~xlog[3].ok /\ xlog[3].set_kcs_offset = up.addr_offset

-----------------------------------------------------------------------------
\* the fragment count of the frame of a command with a parameter: the
\* descriptor and the trailer, and the payload words of SET_KCS_SETUP
ExpectedFrags ==
    IF setup_data(snd.cmd_id)
    THEN 2 + CeilDiv(kcs_setup.set_len, NAU8360_DSP_DATA_BYTE)
    ELSE 2

\* the encoder has returned -EPROTO: no read of a reply was made
EncoderProtocolError ==
    /\ ExchangeOver /\ snd.ret = -EPROTO
    /\ io.npoll = 0 /\ io.nrd = 0 /\ io.r = << >>

\* the step that compares frag_cnt with frag_len is the one that has
\* written the trailer, and the two are equal
TrailerStep ==
    pc = "wr_trailer" =>
        /\ Len(io'.w) = Len(io.w) + 1
        /\ LenPos(io'.w[Len(io'.w)]) = msg'.frag_cnt % 1024
        /\ msg'.frag_cnt = snd.frag_len
        /\ msg'.frag_cnt = Len(io'.w) - 1
        /\ snd'.ret # -EPROTO

\* C38: in a send that passed the validation, the fragments the encoder
\* counts while it writes are the count send computed before: 2 +
\* ceil(L/4) for SET_KCS_SETUP with L bytes, 2 for the other commands with a
\* parameter; the encoder never returns -EPROTO; and the comparison is made
\* once the trailer is written
C38_FragCounter ==
    /\ [](/\ ~EncoderProtocolError
          /\ (pc \in {"wr_descriptor", "wr_payload", "wr_trailer"}) =>
                /\ snd.frag_len = ExpectedFrags
                /\ msg.frag_cnt = Len(io.w) - 1
                /\ msg.frag_cnt < snd.frag_len)
    /\ [][TrailerStep]_vars

\* SET_KCS_SETUP with 1024 bytes: the descriptor and 256 payload words are
\* written, the trailer is next
C38_Witness ==
    /\ pc = "wr_trailer" /\ op = "send"
    /\ snd.cmd_id = NAU8360_DSP_CMD_SET_KCS_SETUP
    /\ kcs_setup.set_len = 1024
    /\ msg.frag_cnt = 257 /\ snd.frag_len = 258

(***************************************************************************)
(* The firmware load                                                       *)
(***************************************************************************)
\* a GET_FRAME_STATUS exchange that succeeded and whose reply carried a
\* status word with the algorithm-ready bit set
StatusPassed(r) == r.kind = "status" /\ r.ok /\ r.ready

LastLoad == ld.log[Len(ld.log)]

\* C39: the upload to a core starts only after a GET_FRAME_STATUS exchange on
\* that core has succeeded with bit 0 of the status it returned set; an
\* exchange that fails or returns the bit clear ends the load with an error,
\* with no SET_KCS_SETUP sent to that core and no access to the next core.
C39_AsStated ==
    /\ \A k \in 1..Len(ld.log) :
          ld.log[k].kind = "upload"
          => /\ k > 1
             /\ StatusPassed(ld.log[k - 1])
             /\ ld.log[k - 1].dsp_addr = ld.log[k].dsp_addr
    /\ ld.phase = "upload"
       => /\ ld.log # << >>
          /\ StatusPassed(LastLoad)
          /\ LastLoad.dsp_addr = up.dsp_addr
    /\ \A k \in 1..Len(ld.log) :
          ld.log[k].kind = "status" /\ ~StatusPassed(ld.log[k])
          => k = Len(ld.log) /\ ld.phase = "done" /\ ld.ret < 0

\* what the driver of the one-core chip, which starts with status = 0, keeps
C39_OneCore == chip = "G10" => C39_AsStated

\* the SET_KCS_SETUP words of an upload are in the mailbox of a core of the
\* NAU83G60 whose GET_FRAME_STATUS exchange returned 0 and no status word
C39_Witness ==
    /\ chip = "G60"
    /\ ld.phase = "upload"
    /\ LastLoad.ok
    /\ ~LastLoad.ready
    /\ snd.cmd_id = NAU8360_DSP_CMD_SET_KCS_SETUP
    /\ io.w # << >>

(***************************************************************************)
(* The reply of a command without reply data                               *)
(***************************************************************************)
\* the frame of a clock command is in the mailbox
ClockCmdSent == snd.cmd_id \in ClockEventCmds /\ io.w # << >>

\* the first reply preamble of the exchange has been read with the id Ok
FirstPreambleOk ==
    io.r # << >> /\ ReplyId(io.r[1]) = NAU8360_DSP_REPLY_OK

\* C40: for CLK_STOP and CLK_RESTART, the commands without reply data, one
\* reply preamble with the id Ok ends the exchange with success whatever
\* its fragment count: no second preamble is polled for, no other word is
\* read, and an exchange whose caller gave no reply buffer does not fail
\* for the lack of it.
C40_AsStated ==
    ClockCmdSent =>
       /\ FirstPreambleOk =>
             /\ ExchangeOver
             /\ snd.ret = 0
             /\ Len(io.r) = 1
             /\ io.nrd = 0
       /\ (ExchangeOver /\ kcs_setup.get_data = NULL) => snd.ret # -EINVAL

\* the NAU83G60 decoder has taken an Ok preamble with a fragment count that
\* is not 0 for a clock command and has polled for a second preamble until
\* the poll timed out
C40_SecondPoll ==
    /\ chip = "G60"
    /\ ClockCmdSent
    /\ FirstPreambleOk
    /\ ReplyLength(io.r[1]) > 0
    /\ Len(io.r) = 1
    /\ ExchangeOver
    /\ io.npoll = NAU8360_DSP_IDLE_RETRY
    /\ snd.ret = -EIO

\* what the NAU83G60 decoder keeps of it: an Ok preamble with the fragment
\* count 0 ends the exchange of a clock command with success, with or
\* without a reply buffer
C40_EmptyReply ==
    (chip = "G60" /\ ClockCmdSent /\ FirstPreambleOk /\ ReplyLength(io.r[1]) = 0)
    => (ExchangeOver /\ snd.ret = 0 /\ Len(io.r) = 1 /\ io.nrd = 0)

=============================================================================
